---- MODULE Spec2Model ----
(***************************************************************************)
(* Model of the social-learning platform's server: the User and Assignment *)
(* collections, the bearer tokens issued so far, the clock, and the HTTP   *)
(* request handlers (controllers).  A handler is an async function: every  *)
(* `await` of a database call is a point where another request may run, so *)
(* a handler is a short sequence of steps, one per database call; each     *)
(* step carries the synchronous code that follows the call.                *)
(*                                                                         *)
(* Time is counted in half days: a tick is 12 hours, 24 hours is DayTicks. *)
(***************************************************************************)
EXTENDS Integers, Sequences, FiniteSets, TLC

\* ---------------------------------------------------------------- bounds
MaxUsers == 2
MaxAssignments == 2
MaxTime == 2
NumProcs == 2
MaxAttempts == 4
MaxUploads == 1
MaxQueryAttempts == 6

\* 24 * 60 * 60 * 1000 ms, in ticks of 12 hours
DayTicks == 2

Procs == 1..NumProcs
Roles == {"admin", "professor", "student"}
None == "none"

\* ------------------------------------------------------ request inputs
\* Email addresses a client may send; "not-an-email" fails z.string().email().
EmailNames == <<"a@x.io", "b@x.io", "c@x.io", "d@x.io">>
Emails == {EmailNames[i] : i \in 1..MaxUsers}
EmailInputs == Emails \cup {"not-an-email"}
\* Passwords a client may send; "short" fails min(6).
GoodPassword == "secret1"
PasswordInputs == {GoodPassword, "wrong12", "short"}
\* The optional role field of a register body.
RoleInputs == Roles \cup {None}
\* Titles a client may send; "ab" fails min(3).
Titles == {"Essay"}
TitleInputs == Titles \cup {"ab"}
\* Descriptions a client may send; "too short" fails min(10).
DescInputs == {"long enough", "too short"}
\* File URLs a client may send with a submission; "nope" fails url().
FileUrlInputs == {"", "https://cdn.io/f.pdf", "nope"}
\* Submission content lengths a client may send (min 1, max 5000).
ContentLenInputs == {0, 1, 5001}
Dates == 0..MaxTime
\* Identifiers a client may put in a path; 0 stands for a malformed id.
AssignmentIdInputs == 0..MaxAssignments
UserIdInputs == 1..MaxUsers

VARIABLES
  users,        \* the users collection, in insertion order; _id is the index
  assignments,  \* the assignments collection; _id is the index, deleted ones keep their slot
  tokens,       \* the bearer tokens issued so far (their payloads)
  now,          \* the clock
  proc,         \* per request slot: where its handler stands, its locals, its response
  db,           \* the mongoose connection: MONGODB_URI set or not, readyState, connection attempts made
  env,          \* process.env: JWT_SECRET and whether the three CLOUDINARY_* settings are there
  cloud,        \* the files forwarded to the storage provider so far
  client        \* the browser: localStorage, the auth context, the query cache and what is in flight

vars == <<users, assignments, tokens, now, proc, db, env, cloud, client>>

\* --------------------------------------------------------------- helpers
\* A response: the endpoint, the HTTP status and the error text; a listing's
\* response also carries the list and the role it was made for, and a
\* response that describes users carries what it says of each.
Resp(op, status, err) ==
  [op |-> op, status |-> status, err |-> err, list |-> <<>>, caller |-> None,
   users |-> {}]

NoResp == Resp(None, 0, None)

\* An HTTP request as the application sees it: method, path and the
\* Authorization header, whose token is the three parts of a JWT.
NoJwt == [payload |-> [id |-> 0, email |-> None, role |-> None], key |-> None, exp |-> 0,
          wellFormed |-> FALSE]
NoRequest == [method |-> None, path |-> None, header |-> [scheme |-> None, token |-> NoJwt]]

\* What formData.get(fieldName) finds in a multipart body: nothing, a text
\* field, or a File with its type and size in bytes.
NoForm == [kind |-> "none", mimeType |-> None, size |-> 0]

\* A free request slot.
Idle == [pc |-> "idle", uid |-> 0, role |-> None, aid |-> 0, val |-> 0, email |-> None,
         title |-> None, set |-> {}, resp |-> NoResp, req |-> NoRequest, route |-> None,
         form |-> NoForm]

\* return c.json(...): the handler ends with its response.
Reply(p, op, status, err) ==
  proc' = [proc EXCEPT ![p] = [Idle EXCEPT !.pc = "done", !.resp = Resp(op, status, err)]]

\* return c.json(...) with a body that describes users.
ReplyWith(p, op, status, us) ==
  proc' = [proc EXCEPT ![p] = [Idle EXCEPT !.pc = "done",
             !.resp = [Resp(op, status, None) EXCEPT !.users = us]]]

\* The response is sent and the slot is free for the next request.
Respond(p) ==
  /\ proc[p].pc = "done"
  /\ proc' = [proc EXCEPT ![p] = Idle]
  /\ UNCHANGED <<users, assignments, tokens, now, db, env, cloud, client>>

\* bcrypt.hash / bcrypt.compare: the hash is not the password, and compare
\* succeeds exactly for the password that was hashed.
Hash(pw) == <<"bcrypt", pw>>
VerifyPassword(user, pw) == user.passwordHash = Hash(pw)

\* createAuthToken: the payload is the AuthUser (name is left out: it is
\* never read by a controller).
CreateAuthToken(id, user) == [id |-> id, email |-> user.email, role |-> user.role]

\* A user list entry that is the whole stored document.
UserListResponseWhole(id, user) ==
  [id |-> id, email |-> user.email, role |-> user.role, passwordHash |-> user.passwordHash]

\* The entry getAllUsers and updateUserRole build from a user document.
UserListResponse(id, user) == [id |-> id, email |-> user.email, role |-> user.role]

\* What the assignment responses keep of a populated creator or student.
PopulatedUser(id, user) == [id |-> id, email |-> user.email]

\* What a client may put in the Authorization header: a token issued
\* earlier, or nothing.
NoToken == [id |-> 0, email |-> None, role |-> None]
TokenInputs == tokens \cup {NoToken}

\* authenticate: 401 unless the header carries a verifiable token.
Authenticated(tok) == tok \in tokens

\* User.findOne({ email })
FindUserByEmail(email) == {i \in 1..Len(users) : users[i].email = email}

\* CONNECTION_STATES: mongoose.connection.readyState.
Disconnected == 0
Connected == 1
Connecting == 2
Disconnecting == 3
ConnectionStates == {Disconnected, Connected, Connecting, Disconnecting}

\* The connection while requests are served: the startup call to
\* connectToDatabase has made its one attempt and the driver has connected.
Serving == [uri |-> TRUE, readyState |-> Connected, attempts |-> 1]

\* process.env on a development machine: no JWT_SECRET, so that the fallback
\* of the source signs the tokens, and the three Cloudinary settings.
LocalEnv == [jwtSecret |-> None, cloudinary |-> TRUE]

\* The auth context of a browser that holds nothing: localStorage's
\* auth_token, the token and user of the React state (user 0 is null), the
\* call of refreshUser in flight with the token its request carries, and the
\* status of the last response to it.
SignedOut == [stored |-> NoJwt, token |-> NoJwt, user |-> 0, pc |-> "idle", sent |-> NoJwt,
              status |-> 0]

\* A role update the admin table has not started: its variables, the
\* snapshot of onMutate and where the request stands.
NoMutation == [state |-> "idle", userId |-> 0, role |-> None, snapshot |-> <<>>]

\* The user list query of a browser that has not loaded it: the cached roles
\* by user id, the role updates, and the fetch in flight with what the server
\* answered.
NoList == [cache |-> <<>>, muts |-> [m \in Procs |-> NoMutation],
           fetch |-> [state |-> "none", data |-> <<>>]]

\* What the query client runs: the user list query and the role update
\* mutation.
QueryKeys == {"users", "updateRole"}
IsMutation(k) == k = "updateRole"

\* A query or mutation that has not run: the retryer's failureCount, the
\* attempts made and the status of the last error.
Unfetched == [state |-> "idle", failureCount |-> 0, attempts |-> 0, error |-> 0]
NoQuery == [k \in QueryKeys |-> Unfetched]

\* A browser that holds nothing.
ClientStart == [auth |-> SignedOut, list |-> NoList, query |-> NoQuery]

Init ==
  /\ users = <<>>
  /\ assignments = <<>>
  /\ tokens = {}
  /\ now = 0
  /\ db = Serving
  /\ env = LocalEnv
  /\ cloud = {}
  /\ client = ClientStart
  /\ proc = [p \in Procs |-> Idle]

\* ----------------------------------------------------------------- clock
Tick ==
  /\ now < MaxTime
  /\ now' = now + 1
  /\ UNCHANGED <<users, assignments, tokens, proc, db, env, cloud, client>>

\* -------------------------------------------------------------- register
RegisterValid(email, pw, roleReq, nameLen) ==
  /\ nameLen >= 2
  /\ email \in Emails
  /\ Len(pw) >= 6
  /\ roleReq \in RoleInputs

\* Number of register handlers between their first and last database call.
RegistersInFlight == Cardinality({p \in Procs : proc[p].pc \in {"regCount", "regCreate"}})

\* registerUser up to and including User.findOne({ email }).
RegisterFind(p, email, pw, roleReq, nameLen) ==
  /\ proc[p].pc = "idle"
  /\ Len(users) + RegistersInFlight < MaxUsers
  /\ UNCHANGED <<users, assignments, tokens, now, db, env, cloud, client>>
  /\ IF ~RegisterValid(email, pw, roleReq, nameLen)
       THEN Reply(p, "register", 400, "Validation failed")
     ELSE IF FindUserByEmail(email) # {}
       THEN Reply(p, "register", 409, "Email already registered")
     ELSE proc' = [proc EXCEPT ![p] = [Idle EXCEPT !.pc = "regCount", !.email = email,
                                                    !.role = roleReq]]

\* A registration that takes the role from the request body when it names one.
RegisterRoleFromBody(userCount, roleReq) ==
  IF roleReq \in Roles THEN roleReq ELSE IF userCount = 0 THEN "admin" ELSE "student"

\* The role registerUser gives, from the result of User.countDocuments(); the
\* body's role field is parsed but not read.
RegisterRole(userCount, roleReq) == IF userCount = 0 THEN "admin" ELSE "student"

\* User.countDocuments() and the role choice.
RegisterCount(p) ==
  /\ proc[p].pc = "regCount"
  /\ proc' = [proc EXCEPT ![p].pc = "regCreate", ![p].role = RegisterRole(Len(users), proc[p].role)]
  /\ UNCHANGED <<users, assignments, tokens, now, db, env, cloud, client>>

\* The unique index of userSchema.email: an insert with a stored email is
\* rejected with a duplicate key error.
UniqueEmailIndex(email) == FindUserByEmail(email) # {}

\* User.create(...): the unique index on email rejects a duplicate, which
\* the catch turns into 500; else the user is stored and a token issued.
RegisterCreate(p) ==
  /\ proc[p].pc = "regCreate"
  /\ UNCHANGED <<assignments, now, db, env, cloud, client>>
  /\ IF UniqueEmailIndex(proc[p].email)
       THEN /\ Reply(p, "register", 500, "Registration failed")
            /\ UNCHANGED <<users, tokens>>
     ELSE LET u == [email |-> proc[p].email, passwordHash |-> Hash(GoodPassword),
                    role |-> proc[p].role]
          IN /\ users' = Append(users, u)
             /\ tokens' = tokens \cup {CreateAuthToken(Len(users) + 1, u)}
             /\ ReplyWith(p, "register", 201, {CreateAuthToken(Len(users) + 1, u)})

\* ----------------------------------------------------------------- login
LoginValid(email, pw) == email \in Emails /\ Len(pw) >= 6

\* An error text that tells the client the email is not registered.
UnknownEmailErrorTelling == "No account with this email"

\* The error texts of loginUser's two 401 responses.
UnknownEmailError == "Invalid email or password"
WrongPasswordError == "Invalid email or password"

LoginUser(p, email, pw) ==
  /\ proc[p].pc = "idle"
  /\ UNCHANGED <<users, assignments, now, db, env, cloud, client>>
  /\ IF ~LoginValid(email, pw)
       THEN Reply(p, "login", 400, "Validation failed") /\ UNCHANGED tokens
     ELSE IF FindUserByEmail(email) = {}
       THEN Reply(p, "login", 401, UnknownEmailError) /\ UNCHANGED tokens
     ELSE LET id == CHOOSE i \in FindUserByEmail(email) : TRUE
          IN IF ~VerifyPassword(users[id], pw)
               THEN Reply(p, "login", 401, WrongPasswordError) /\ UNCHANGED tokens
             ELSE /\ tokens' = tokens \cup {CreateAuthToken(id, users[id])}
                  /\ ReplyWith(p, "login", 200, {CreateAuthToken(id, users[id])})

\* ------------------------------------------------------- user management
\* The guard the three user controllers share: the role in the token.
IsAdminCaller(tok) == tok.role = "admin"

\* getAllUsers
GetAllUsers(p, tok) ==
  /\ proc[p].pc = "idle"
  /\ UNCHANGED <<users, assignments, tokens, now, db, env, cloud, client>>
  /\ IF ~Authenticated(tok)
       THEN Reply(p, "getAllUsers", 401, "Authorization header required")
     ELSE IF ~IsAdminCaller(tok)
       THEN Reply(p, "getAllUsers", 403, "Admin access required")
     ELSE ReplyWith(p, "getAllUsers", 200,
                    {UserListResponse(i, users[i]) : i \in 1..Len(users)})

\* getUserStats
GetUserStats(p, tok) ==
  /\ proc[p].pc = "idle"
  /\ UNCHANGED <<users, assignments, tokens, now, db, env, cloud, client>>
  /\ IF ~Authenticated(tok)
       THEN Reply(p, "getUserStats", 401, "Authorization header required")
     ELSE IF ~IsAdminCaller(tok)
       THEN Reply(p, "getUserStats", 403, "Admin access required")
     ELSE Reply(p, "getUserStats", 200, None)

\* A guard that lets every role change through.
IsSelfDemotionNever(tok, userId, role) == FALSE

\* updateUserRole's guard against self-demotion.
IsSelfDemotion(tok, userId, role) == userId = tok.id /\ role # "admin"

\* updateUserRole up to and including User.findById(userId), then the guard
\* and the assignment userToUpdate.role = role.  "set" holds the paths the
\* document then counts as modified: save() writes nothing for a value equal
\* to the one loaded.
UpdateRoleLoad(p, tok, userId, role) ==
  /\ proc[p].pc = "idle"
  /\ UNCHANGED <<users, assignments, tokens, now, db, env, cloud, client>>
  /\ IF ~Authenticated(tok)
       THEN Reply(p, "updateUserRole", 401, "Authorization header required")
     ELSE IF ~IsAdminCaller(tok)
       THEN Reply(p, "updateUserRole", 403, "Admin access required")
     ELSE IF role \notin Roles
       THEN Reply(p, "updateUserRole", 400, "Validation failed")
     ELSE IF userId \notin 1..Len(users)
       THEN Reply(p, "updateUserRole", 404, "User not found")
     ELSE IF IsSelfDemotion(tok, userId, role)
       THEN Reply(p, "updateUserRole", 400, "You cannot change your own admin role")
     ELSE /\ proc' = [proc EXCEPT ![p] = [Idle EXCEPT !.pc = "roleSave", !.uid = userId,
                        !.role = role,
                        !.set = IF users[userId].role # role THEN {"role"} ELSE {}]]

\* userToUpdate.save()
UpdateRoleSave(p) ==
  /\ proc[p].pc = "roleSave"
  /\ users' = IF "role" \in proc[p].set
                THEN [users EXCEPT ![proc[p].uid].role = proc[p].role]
                ELSE users
  /\ ReplyWith(p, "updateUserRole", 200,
               {UserListResponse(proc[p].uid, users'[proc[p].uid])})
  /\ UNCHANGED <<assignments, tokens, now, db, env, cloud, client>>

\* ------------------------------------------------------------ assignments
\* A deleted document: its slot stays so that _id values are never reused.
Deleted == [exists |-> FALSE, title |-> None, dueDate |-> 0, createdBy |-> 0,
            submissions |-> <<>>]

\* mongoose.Types.ObjectId.isValid
IsValidObjectId(id) == id > 0

\* Assignment.findById(id): the stored document or null.
Stored(id) == id \in 1..Len(assignments) /\ assignments[id].exists

\* A due date rule that accepts every date.
DueDateOkAlways(date, t) == TRUE

\* The refine() of createAssignmentSchema.dueDate and the validator of
\* assignmentSchema.dueDate: date > new Date(Date.now() - 24h).
DueDateOk(date, t) == date > t - DayTicks

\* An overdue test that counts the due date itself as overdue.
IsOverdueAtDueDate(a, t) == t >= a.dueDate

\* assignmentSchema.methods.isOverdue, at time t
IsOverdue(a, t) == t > a.dueDate

\* A duplicate check that finds nothing.
HasStudentSubmittedNever(a, studentId) == FALSE

\* assignmentSchema.methods.hasStudentSubmitted
HasStudentSubmitted(a, studentId) ==
  \E k \in 1..Len(a.submissions) : a.submissions[k].studentId = studentId

\* The role guard createAssignment, updateAssignment, deleteAssignment and
\* getAssignmentStats share.
IsStaff(tok) == tok.role \in {"professor", "admin"}

\* An ownership check that lets every professor through.
IsForeignProfessorNever(tok, a) == FALSE

\* The ownership check of getAssignmentById, updateAssignment, deleteAssignment.
IsForeignProfessor(tok, a) == tok.role = "professor" /\ a.createdBy # tok.id

\* createAssignmentSchema.safeParse
CreateValid(title, desc, due, t) ==
  /\ Len(title) >= 3 /\ Len(title) <= 200
  /\ Len(desc) >= 10
  /\ DueDateOk(due, t)

CreatesInFlight == Cardinality({p \in Procs : proc[p].pc = "createInsert"})

\* A hook that lets every creator through.
CreatorAllowedAlways(creatorId) == TRUE

\* The first pre('save') hook: the creator must be stored with role
\* professor or admin.
CreatorAllowed(creatorId) ==
  /\ creatorId \in 1..Len(users)
  /\ users[creatorId].role \in {"professor", "admin"}

\* createAssignment up to and including the hook's User.findById: the role
\* guard, the body's validation, the schema's validation in save() and the
\* first pre('save') hook.
CreateHook(p, tok, title, desc, due) ==
  /\ proc[p].pc = "idle"
  /\ Len(assignments) + CreatesInFlight < MaxAssignments
  /\ UNCHANGED <<users, assignments, tokens, now, db, env, cloud, client>>
  /\ IF ~Authenticated(tok)
       THEN Reply(p, "createAssignment", 401, "Authorization header required")
     ELSE IF ~IsStaff(tok)
       THEN Reply(p, "createAssignment", 403, "Only professors and admins can create assignments")
     ELSE IF ~CreateValid(title, desc, due, now)
       THEN Reply(p, "createAssignment", 400, "Validation failed")
     ELSE IF ~DueDateOk(due, now)
       THEN Reply(p, "createAssignment", 500, "Failed to create assignment")
     ELSE IF tok.id \notin 1..Len(users)
       THEN Reply(p, "createAssignment", 500, "Failed to create assignment")
     ELSE IF ~CreatorAllowed(tok.id)
       THEN Reply(p, "createAssignment", 403, "Only professors and admins can create assignments")
     ELSE /\ proc' = [proc EXCEPT ![p] = [Idle EXCEPT !.pc = "createInsert", !.uid = tok.id,
                        !.title = title, !.val = due]]

\* The insert of assignment.save(), then populate and the 201.
CreateInsert(p) ==
  /\ proc[p].pc = "createInsert"
  /\ assignments' = Append(assignments,
        [exists |-> TRUE, title |-> proc[p].title, dueDate |-> proc[p].val,
         createdBy |-> proc[p].uid, submissions |-> <<>>])
  /\ ReplyWith(p, "createAssignment", 201, {PopulatedUser(proc[p].uid, users[proc[p].uid])})
  /\ UNCHANGED <<users, tokens, now, db, env, cloud, client>>

\* ---- getAssignments
StatusInputs == {"upcoming", "overdue", "all", "late"}
SortByInputs == {"dueDate", "createdAt", "title"}
SortOrderInputs == {"asc", "desc"}
PageInputs == {1, 2}
LimitInputs == {1, 10}
Queries == [status : StatusInputs, sortBy : SortByInputs, sortOrder : SortOrderInputs,
            page : PageInputs, limit : LimitInputs]

\* assignmentQuerySchema.safeParse
QueryValid(q) == q.status \in {"upcoming", "overdue", "all"}

\* No role-based filtering: every stored assignment for every caller.
RoleFilterNone(tok) == {i \in 1..Len(assignments) : assignments[i].exists}

\* Role-based filtering: a professor's query is narrowed to createdBy.
RoleFilter(tok) ==
  {i \in 1..Len(assignments) :
     /\ assignments[i].exists
     /\ tok.role = "professor" => assignments[i].createdBy = tok.id}

\* Status filtering, at time t.
StatusFilter(S, status, t) ==
  IF status = "upcoming" THEN {i \in S : assignments[i].dueDate >= t}
  ELSE IF status = "overdue" THEN {i \in S : assignments[i].dueDate < t}
  ELSE S

\* a sorts before or with b under sortOptions[sortBy] = 1.  createdAt is not
\* kept in the model's documents: it is set when the document is inserted,
\* so it orders the documents as their _id does.  The model's titles are
\* ordered by length.
KeyLeq(a, b, sortBy) ==
  IF sortBy = "dueDate" THEN assignments[a].dueDate <= assignments[b].dueDate
  ELSE IF sortBy = "createdAt" THEN a <= b
  ELSE Len(assignments[a].title) <= Len(assignments[b].title)

\* query.sort(sortOptions): every order of S the sort may produce; documents
\* with equal keys come in an order the database does not promise.
SortedLists(S, sortBy, sortOrder) ==
  {f \in [1..Cardinality(S) -> S] :
     /\ \A i, j \in 1..Cardinality(S) : i # j => f[i] # f[j]
     /\ \A i, j \in 1..Cardinality(S) :
          i < j => IF sortOrder = "desc" THEN KeyLeq(f[j], f[i], sortBy)
                                         ELSE KeyLeq(f[i], f[j], sortBy)}

\* query.skip((page - 1) * limit).limit(limit)
PageOf(lst, page, limit) ==
  LET skip == (page - 1) * limit
      last == IF skip + limit < Len(lst) THEN skip + limit ELSE Len(lst)
  IN IF skip >= Len(lst) THEN <<>> ELSE SubSeq(lst, skip + 1, last)

\* Every list getAssignments may return to the bearer of tok for query q.
ListResults(tok, q) ==
  {PageOf(lst, q.page, q.limit) :
     lst \in SortedLists(StatusFilter(RoleFilter(tok), q.status, now), q.sortBy, q.sortOrder)}

GetAssignments(p, tok, q) ==
  /\ proc[p].pc = "idle"
  /\ UNCHANGED <<users, assignments, tokens, now, db, env, cloud, client>>
  /\ IF ~Authenticated(tok)
       THEN Reply(p, "getAssignments", 401, "Authorization header required")
     ELSE IF ~QueryValid(q)
       THEN Reply(p, "getAssignments", 400, "Invalid query parameters")
     ELSE \E lst \in ListResults(tok, q) :
            proc' = [proc EXCEPT ![p] = [Idle EXCEPT !.pc = "done",
                       !.resp = [Resp("getAssignments", 200, None) EXCEPT !.list = lst,
                                   !.users = {PopulatedUser(assignments[lst[k]].createdBy,
                                                 users[assignments[lst[k]].createdBy]) :
                                                k \in 1..Len(lst)},
                                                                          !.caller = tok.role]]]

\* ---- getAssignmentById
\* Up to and including the first Assignment.findById and the ownership check.
GetByIdLoad(p, tok, aid) ==
  /\ proc[p].pc = "idle"
  /\ UNCHANGED <<users, assignments, tokens, now, db, env, cloud, client>>
  /\ IF ~Authenticated(tok)
       THEN Reply(p, "getAssignmentById", 401, "Authorization header required")
     ELSE IF ~IsValidObjectId(aid)
       THEN Reply(p, "getAssignmentById", 400, "Invalid assignment ID")
     ELSE IF ~Stored(aid)
       THEN Reply(p, "getAssignmentById", 404, "Assignment not found")
     ELSE IF IsForeignProfessor(tok, assignments[aid])
       THEN Reply(p, "getAssignmentById", 403, "Access denied")
     ELSE /\ proc' = [proc EXCEPT ![p] = [Idle EXCEPT !.pc = "getPopulate", !.aid = aid]]

\* The second Assignment.findById, with the submissions populated.
GetByIdPopulate(p) ==
  /\ proc[p].pc = "getPopulate"
  /\ UNCHANGED <<users, assignments, tokens, now, db, env, cloud, client>>
  /\ IF ~Stored(proc[p].aid)
       THEN Reply(p, "getAssignmentById", 404, "Assignment not found")
     ELSE LET a == assignments[proc[p].aid]
          IN ReplyWith(p, "getAssignmentById", 200,
                       {PopulatedUser(a.createdBy, users[a.createdBy])} \cup
                       {PopulatedUser(a.submissions[k].studentId,
                                      users[a.submissions[k].studentId]) :
                          k \in 1..Len(a.submissions)})

\* ---- updateAssignment
UpdateFields == {"title", "description", "dueDate"}
\* The bodies a client may send: any subset of the fields, each with a value.
UpdateBodies ==
  {b \in [fields : SUBSET UpdateFields, title : TitleInputs, description : DescInputs,
          dueDate : Dates] :
     /\ "title" \notin b.fields => b.title = "ab"
     /\ "description" \notin b.fields => b.description = "too short"
     /\ "dueDate" \notin b.fields => b.dueDate = 0}

\* updateAssignmentSchema = createAssignmentSchema.partial(): a field is
\* checked only when present.
UpdateValid(b, t) ==
  /\ "title" \in b.fields => Len(b.title) >= 3 /\ Len(b.title) <= 200
  /\ "description" \in b.fields => Len(b.description) >= 10
  /\ "dueDate" \in b.fields => DueDateOk(b.dueDate, t)

\* The paths of the loaded document that the three assignments mark
\* modified: a path set to the value it already has is not modified.  (The
\* description is validated but not kept in the model's documents.)
ModifiedPaths(a, b) ==
  {f \in b.fields \cap {"title", "dueDate"} :
     IF f = "title" THEN b.title # a.title ELSE b.dueDate # a.dueDate}

\* The validation save() runs on a loaded document: the validators of every
\* loaded path run, modified or not, so the due date the document then has
\* is checked against the clock again.
SaveValid(a, b, t) ==
  DueDateOk(IF "dueDate" \in b.fields THEN b.dueDate ELSE a.dueDate, t)

\* Up to and including Assignment.findById, the ownership check, the field
\* assignments and the validation of save().
UpdateLoad(p, tok, aid, b) ==
  /\ proc[p].pc = "idle"
  /\ UNCHANGED <<users, assignments, tokens, now, db, env, cloud, client>>
  /\ IF ~Authenticated(tok)
       THEN Reply(p, "updateAssignment", 401, "Authorization header required")
     ELSE IF ~IsStaff(tok)
       THEN Reply(p, "updateAssignment", 403, "Only professors and admins can update assignments")
     ELSE IF ~IsValidObjectId(aid)
       THEN Reply(p, "updateAssignment", 400, "Invalid assignment ID")
     ELSE IF ~UpdateValid(b, now)
       THEN Reply(p, "updateAssignment", 400, "Validation failed")
     ELSE IF ~Stored(aid)
       THEN Reply(p, "updateAssignment", 404, "Assignment not found")
     ELSE IF IsForeignProfessor(tok, assignments[aid])
       THEN Reply(p, "updateAssignment", 403, "Access denied")
     ELSE IF ~SaveValid(assignments[aid], b, now)
       THEN Reply(p, "updateAssignment", 500, "Failed to update assignment")
     ELSE /\ proc' = [proc EXCEPT ![p] = [Idle EXCEPT !.pc = "updSave", !.aid = aid,
                        !.title = IF "title" \in ModifiedPaths(assignments[aid], b)
                                    THEN b.title ELSE None,
                        !.val = IF "dueDate" \in ModifiedPaths(assignments[aid], b)
                                  THEN b.dueDate ELSE 0,
                        !.set = ModifiedPaths(assignments[aid], b)]]

\* The document after save()'s $set of the modified paths.
ApplySet(a, set, title, due) ==
  [a EXCEPT !.title = IF "title" \in set THEN title ELSE @,
            !.dueDate = IF "dueDate" \in set THEN due ELSE @]

\* The update of assignment.save(): nothing is written when no path is
\* modified; a document deleted meanwhile makes save() throw.
UpdateSave(p) ==
  /\ proc[p].pc = "updSave"
  /\ UNCHANGED <<users, tokens, now, db, env, cloud, client>>
  /\ IF proc[p].set = {}
       THEN /\ ReplyWith(p, "updateAssignment", 200,
                          IF Stored(proc[p].aid)
                            THEN {PopulatedUser(assignments[proc[p].aid].createdBy,
                                                users[assignments[proc[p].aid].createdBy])}
                            ELSE {})
            /\ UNCHANGED assignments
     ELSE IF ~Stored(proc[p].aid)
       THEN Reply(p, "updateAssignment", 500, "Failed to update assignment")
            /\ UNCHANGED assignments
     ELSE /\ assignments' = [assignments EXCEPT ![proc[p].aid] =
                               ApplySet(@, proc[p].set, proc[p].title, proc[p].val)]
          /\ ReplyWith(p, "updateAssignment", 200,
                       {PopulatedUser(assignments[proc[p].aid].createdBy,
                                      users[assignments[proc[p].aid].createdBy])})

\* ---- deleteAssignment
\* A guard that lets every delete through.
HasSubmissionsNever(a) == FALSE

\* deleteAssignment's guard on the loaded document.
HasSubmissions(a) == Len(a.submissions) > 0

\* Up to and including Assignment.findById and the checks on the document.
DeleteLoad(p, tok, aid) ==
  /\ proc[p].pc = "idle"
  /\ UNCHANGED <<users, assignments, tokens, now, db, env, cloud, client>>
  /\ IF ~Authenticated(tok)
       THEN Reply(p, "deleteAssignment", 401, "Authorization header required")
     ELSE IF ~IsStaff(tok)
       THEN Reply(p, "deleteAssignment", 403, "Only professors and admins can delete assignments")
     ELSE IF ~IsValidObjectId(aid)
       THEN Reply(p, "deleteAssignment", 400, "Invalid assignment ID")
     ELSE IF ~Stored(aid)
       THEN Reply(p, "deleteAssignment", 404, "Assignment not found")
     ELSE IF IsForeignProfessor(tok, assignments[aid])
       THEN Reply(p, "deleteAssignment", 403, "Access denied")
     ELSE IF HasSubmissions(assignments[aid])
       THEN Reply(p, "deleteAssignment", 400, "Cannot delete assignment with existing submissions")
     ELSE /\ proc' = [proc EXCEPT ![p] = [Idle EXCEPT !.pc = "delRemove", !.aid = aid]]

\* Assignment.findByIdAndDelete(assignmentId)
DeleteRemove(p) ==
  /\ proc[p].pc = "delRemove"
  /\ assignments' = IF Stored(proc[p].aid)
                      THEN [assignments EXCEPT ![proc[p].aid] = Deleted]
                      ELSE assignments
  /\ Reply(p, "deleteAssignment", 200, "Assignment deleted successfully")
  /\ UNCHANGED <<users, tokens, now, db, env, cloud, client>>

\* ---- submitAssignment
\* submitAssignmentSchema.safeParse
SubmitValid(contentLen, fileUrl) ==
  /\ contentLen >= 1 /\ contentLen <= 5000
  /\ fileUrl # "nope"

\* Up to and including Assignment.findById, the overdue and duplicate checks
\* and submissions.push(...); save() then starts its hooks.
SubmitLoad(p, tok, aid, contentLen, fileUrl) ==
  /\ proc[p].pc = "idle"
  /\ UNCHANGED <<users, assignments, tokens, now, db, env, cloud, client>>
  /\ IF ~Authenticated(tok)
       THEN Reply(p, "submitAssignment", 401, "Authorization header required")
     ELSE IF tok.role # "student"
       THEN Reply(p, "submitAssignment", 403, "Only students can submit assignments")
     ELSE IF ~IsValidObjectId(aid)
       THEN Reply(p, "submitAssignment", 400, "Invalid assignment ID")
     ELSE IF ~SubmitValid(contentLen, fileUrl)
       THEN Reply(p, "submitAssignment", 400, "Validation failed")
     ELSE IF ~Stored(aid)
       THEN Reply(p, "submitAssignment", 404, "Assignment not found")
     ELSE IF IsOverdue(assignments[aid], now)
       THEN Reply(p, "submitAssignment", 400, "Assignment submission deadline has passed")
     ELSE IF HasStudentSubmitted(assignments[aid], tok.id)
       THEN Reply(p, "submitAssignment", 400, "You have already submitted this assignment")
     ELSE /\ proc' = [proc EXCEPT ![p] = [Idle EXCEPT !.pc = "subHook", !.aid = aid,
                        !.uid = tok.id, !.val = now]]

\* A hook that lets every submitter through.
StudentAllowedAlways(studentId) == TRUE

\* The second pre('save') hook on the pushed submission: the student must be
\* stored with role student.  (Its duplicate check reads the handler's own
\* copy of the document, where SubmitLoad found no submission of this
\* student, so it never fires.)
StudentAllowed(studentId) ==
  /\ studentId \in 1..Len(users)
  /\ users[studentId].role = "student"

\* The hook's User.findById(submission.studentId); its errors do not carry
\* the text the catch block looks for, so they end as 500.
SubmitHook(p) ==
  /\ proc[p].pc = "subHook"
  /\ UNCHANGED <<users, assignments, tokens, now, db, env, cloud, client>>
  /\ IF ~StudentAllowed(proc[p].uid)
       THEN Reply(p, "submitAssignment", 500, "Failed to submit assignment")
     ELSE /\ proc' = [proc EXCEPT ![p].pc = "subSave"]

\* The document after save()'s $push of the new submission: the push is
\* applied to the stored array, whatever it holds by now.
PushSubmission(a, studentId, submittedAt) ==
  [a EXCEPT !.submissions = Append(@, [studentId |-> studentId, submittedAt |-> submittedAt])]

\* The update of assignment.save(); a document deleted meanwhile makes it throw.
SubmitSave(p) ==
  /\ proc[p].pc = "subSave"
  /\ UNCHANGED <<users, tokens, now, db, env, cloud, client>>
  /\ IF ~Stored(proc[p].aid)
       THEN Reply(p, "submitAssignment", 500, "Failed to submit assignment")
            /\ UNCHANGED assignments
     ELSE /\ assignments' = [assignments EXCEPT ![proc[p].aid] =
                               PushSubmission(@, proc[p].uid, proc[p].val)]
          /\ Reply(p, "submitAssignment", 201, None)

\* ---- getAssignmentStats
\* { $match: matchStage }: a professor's own assignments, every assignment
\* for an admin.
StatsMatch(tok) ==
  {i \in 1..Len(assignments) :
     Stored(i) /\ (tok.role = "professor" => assignments[i].createdBy = tok.id)}

\* $sum of { $size: '$submissions' } over the documents of ids
RECURSIVE SumSubmissions(_)
SumSubmissions(ids) ==
  IF ids = {} THEN 0
  ELSE LET i == CHOOSE x \in ids : TRUE
       IN Len(assignments[i].submissions) + SumSubmissions(ids \ {i})

\* The $group stage: total, upcoming ($gte against the first new Date()),
\* overdue ($lt against the second new Date()), the submissions and their
\* average as the fraction <<sum, count>>.
StatsGroup(ids, first, second) ==
  << Cardinality(ids),
     Cardinality({i \in ids : assignments[i].dueDate >= first}),
     Cardinality({i \in ids : assignments[i].dueDate < second}),
     SumSubmissions(ids),
     <<SumSubmissions(ids), Cardinality(ids)>> >>

\* stats[0] || { all zero }: $group emits no document for no input.
StatsResult(ids, first, second) ==
  IF ids = {} THEN <<0, 0, 0, 0, <<0, 1>> >> ELSE StatsGroup(ids, first, second)

\* The clock is read twice while the pipeline is built, and it may move on
\* in between.  Dates are whole ticks here, so a second reading that is later
\* by any amount counts as overdue the due dates up to and including the
\* first reading: that is the reading now + 1.
SecondReadings(t) == {t, t + 1}

\* getAssignmentStats
GetAssignmentStats(p, tok, second) ==
  /\ proc[p].pc = "idle"
  /\ UNCHANGED <<users, assignments, tokens, now, db, env, cloud, client>>
  /\ IF ~Authenticated(tok)
       THEN Reply(p, "getAssignmentStats", 401, "Authorization header required")
     ELSE IF ~IsStaff(tok)
       THEN Reply(p, "getAssignmentStats", 403,
                  "Only professors and admins can view assignment statistics")
     ELSE proc' = [proc EXCEPT ![p] = [Idle EXCEPT !.pc = "done", !.uid = tok.id,
                     !.resp = [Resp("getAssignmentStats", 200, None) EXCEPT
                                 !.list = StatsResult(StatsMatch(tok), now, second),
                                 !.caller = tok.role]]]

\* ------------------------------------------------------ specifications
\* The user collection's handlers: one step of the handler in request slot p
\* (a new request is taken, or a handler awaiting a database call resumes).
UserStep(p) ==
  \/ \E email \in EmailInputs, pw \in PasswordInputs, r \in RoleInputs, n \in {1, 2} :
       RegisterFind(p, email, pw, r, n)
  \/ RegisterCount(p)
  \/ RegisterCreate(p)
  \/ \E email \in EmailInputs, pw \in PasswordInputs : LoginUser(p, email, pw)
  \/ \E tok \in TokenInputs : GetAllUsers(p, tok)
  \/ \E tok \in TokenInputs : GetUserStats(p, tok)
  \/ \E tok \in TokenInputs, id \in UserIdInputs, r \in Roles \cup {"root"} :
       UpdateRoleLoad(p, tok, id, r)
  \/ UpdateRoleSave(p)
  \/ Respond(p)

\* The service from an empty database, its user endpoints called one request
\* at a time: a single request slot, so a handler runs to its response before
\* the next request is taken.
Next == UserStep(1)

Spec == Init /\ [][Next]_vars

\* Concurrent registrations on an empty database: every request slot runs
\* registerUser, their database calls interleaved.
RegisterRaceNext ==
  \/ \E p \in Procs, email \in EmailInputs, pw \in PasswordInputs, r \in RoleInputs, n \in {1, 2} :
       RegisterFind(p, email, pw, r, n)
  \/ \E p \in Procs : RegisterCount(p)
  \/ \E p \in Procs : RegisterCreate(p)
  \/ \E p \in Procs : Respond(p)

RegisterRace == Init /\ [][RegisterRaceNext]_vars

\* A database the user endpoints lead to: the first registered user (admin),
\* a second whom the admin made professor and who logged in again, a third
\* (student).  Every token issued on the way can still be presented.
StaffedUsers ==
  << [email |-> "a@x.io", passwordHash |-> Hash(GoodPassword), role |-> "admin"],
     [email |-> "b@x.io", passwordHash |-> Hash(GoodPassword), role |-> "professor"],
     [email |-> "c@x.io", passwordHash |-> Hash(GoodPassword), role |-> "student"] >>

StaffedTokens ==
  { [id |-> 1, email |-> "a@x.io", role |-> "admin"],
    [id |-> 2, email |-> "b@x.io", role |-> "student"],
    [id |-> 2, email |-> "b@x.io", role |-> "professor"],
    [id |-> 3, email |-> "c@x.io", role |-> "student"] }

StaffedInit ==
  /\ users = StaffedUsers
  /\ assignments = <<>>
  /\ tokens = StaffedTokens
  /\ now = 0
  /\ db = Serving
  /\ env = LocalEnv
  /\ cloud = {}
  /\ client = ClientStart
  /\ proc = [p \in Procs |-> Idle]

\* The assignment endpoints: one step of the handler in request slot p.
AssignmentStep(p) ==
  \/ \E tok \in TokenInputs, title \in TitleInputs, desc \in DescInputs, due \in Dates :
       CreateHook(p, tok, title, desc, due)
  \/ CreateInsert(p)
  \/ \E tok \in TokenInputs, q \in Queries : GetAssignments(p, tok, q)
  \/ \E tok \in TokenInputs, aid \in AssignmentIdInputs : GetByIdLoad(p, tok, aid)
  \/ GetByIdPopulate(p)
  \/ \E tok \in TokenInputs, aid \in AssignmentIdInputs, b \in UpdateBodies :
       UpdateLoad(p, tok, aid, b)
  \/ UpdateSave(p)
  \/ \E tok \in TokenInputs, aid \in AssignmentIdInputs : DeleteLoad(p, tok, aid)
  \/ DeleteRemove(p)
  \/ \E tok \in TokenInputs, aid \in AssignmentIdInputs, n \in ContentLenInputs,
        url \in FileUrlInputs : SubmitLoad(p, tok, aid, n, url)
  \/ SubmitHook(p)
  \/ SubmitSave(p)
  \/ Respond(p)

\* The assignment endpoints called one request at a time while time passes.
AssignmentNext ==
  \/ Tick
  \/ AssignmentStep(1)

AssignmentSpec == StaffedInit /\ [][AssignmentNext]_vars

\* The staffed database with one assignment of the admin's, open for
\* submissions or already past its due date.
OpenInit ==
  /\ users = StaffedUsers
  /\ tokens = StaffedTokens
  /\ now = 0
  /\ db = Serving
  /\ env = LocalEnv
  /\ cloud = {}
  /\ client = ClientStart
  /\ proc = [p \in Procs |-> Idle]
  /\ \E due \in Dates :
       assignments = << [exists |-> TRUE, title |-> "Essay", dueDate |-> due,
                         createdBy |-> 1, submissions |-> <<>>] >>

\* Concurrent requests on that assignment: every request slot runs
\* submitAssignment, updateAssignment or deleteAssignment, their database
\* calls interleaved, while time passes.
SubmitRaceNext ==
  \/ Tick
  \/ \E p \in Procs, tok \in TokenInputs, aid \in AssignmentIdInputs, n \in ContentLenInputs,
        url \in FileUrlInputs : SubmitLoad(p, tok, aid, n, url)
  \/ \E p \in Procs : SubmitHook(p)
  \/ \E p \in Procs : SubmitSave(p)
  \/ \E p \in Procs, tok \in TokenInputs, aid \in AssignmentIdInputs, b \in UpdateBodies :
       UpdateLoad(p, tok, aid, b)
  \/ \E p \in Procs : UpdateSave(p)
  \/ \E p \in Procs, tok \in TokenInputs, aid \in AssignmentIdInputs : DeleteLoad(p, tok, aid)
  \/ \E p \in Procs : DeleteRemove(p)
  \/ \E p \in Procs : Respond(p)

SubmitRace == OpenInit /\ [][SubmitRaceNext]_vars

\* The staffed database with one assignment of the admin's and one of the
\* professor's, each with any due date.
OwnedInit ==
  /\ users = StaffedUsers
  /\ tokens = StaffedTokens
  /\ now = 0
  /\ db = Serving
  /\ env = LocalEnv
  /\ cloud = {}
  /\ client = ClientStart
  /\ proc = [p \in Procs |-> Idle]
  /\ \E d1, d2 \in Dates :
       assignments = << [exists |-> TRUE, title |-> "Essay", dueDate |-> d1,
                         createdBy |-> 1, submissions |-> <<>>],
                        [exists |-> TRUE, title |-> "Essay", dueDate |-> d2,
                         createdBy |-> 2, submissions |-> <<>>] >>

\* Requests on those assignments, one at a time: getAssignmentById,
\* updateAssignment and deleteAssignment with every token and body.
AccessNext ==
  \/ Tick
  \/ \E tok \in TokenInputs, aid \in AssignmentIdInputs : GetByIdLoad(1, tok, aid)
  \/ GetByIdPopulate(1)
  \/ \E tok \in TokenInputs, aid \in AssignmentIdInputs, b \in UpdateBodies :
       UpdateLoad(1, tok, aid, b)
  \/ UpdateSave(1)
  \/ \E tok \in TokenInputs, aid \in AssignmentIdInputs : DeleteLoad(1, tok, aid)
  \/ DeleteRemove(1)
  \/ Respond(1)

AccessSpec == OwnedInit /\ [][AccessNext]_vars

\* ---------------------------------------------------------- application
\* JWT_SECRET and TOKEN_EXPIRY ('7d', in 12-hour ticks)
JwtSecret == "dev-secret-change-me"
TokenExpiry == 14

\* const JWT_SECRET = process.env.JWT_SECRET || 'dev-secret-change-me'
JwtKey(e) == IF e.jwtSecret = None THEN JwtSecret ELSE e.jwtSecret

\* sign(user, JWT_SECRET, { expiresIn }): the payload, the key that made the
\* signature and the exp claim.
Sign(payload, key, iat) ==
  [payload |-> payload, key |-> key, exp |-> iat + TokenExpiry, wellFormed |-> TRUE]

\* A verification that accepts every token.
VerifyAlways(token, key, t) == TRUE

\* verify(token, JWT_SECRET): throws for a string that is no JWT, for a
\* signature made with another key and once the clock has reached exp.
Verify(token, key, t) ==
  /\ token.wellFormed
  /\ token.key = key
  /\ t < token.exp

\* The tokens a client may present: signed by the server or with another
\* key, issued long ago, almost seven days ago or just now; or a string that
\* is no JWT.
IssuedAtInputs == {0 - TokenExpiry, 1 - TokenExpiry, 0}
KeyInputs == {JwtSecret, "guessed-secret"}
JwtInputs ==
  {Sign(pl, k, iat) : pl \in StaffedTokens, k \in KeyInputs, iat \in IssuedAtInputs}
    \cup {NoJwt}
SchemeInputs == {None, "Basic", "Bearer"}
HeaderInputs == [scheme : SchemeInputs, token : JwtInputs]

\* The routers: method, path, whether authenticate comes before the
\* controller, the roles requireRole lets through, and the controller.
Route(method, path, auth, roles, controller) ==
  [method |-> method, path |-> path, auth |-> auth, roles |-> roles,
   controller |-> controller]

AuthRouter ==
  {Route("POST", "/auth/register", FALSE, Roles, "registerUser"),
   Route("POST", "/auth/login", FALSE, Roles, "loginUser"),
   Route("GET", "/auth/me", TRUE, Roles, "getUserProfile")}

UsersRouter ==
  {Route("GET", "/users", TRUE, Roles, "getAllUsers"),
   Route("GET", "/users/stats", TRUE, Roles, "getUserStats"),
   Route("PATCH", "/users/:id/role", TRUE, Roles, "updateUserRole")}

UploadRouter ==
  {Route("POST", "/upload/assignment/:assignmentId", TRUE, Roles, "uploadAssignmentSubmission"),
   Route("POST", "/upload/post-image", TRUE, Roles, "uploadPostImage"),
   Route("GET", "/upload/info", TRUE, Roles, "getUploadInfo"),
   Route("GET", "/upload/status", TRUE, Roles, "getUploadServiceStatus")}

AssignmentsRouter ==
  {Route("POST", "/assignments", TRUE, Roles, "createAssignment"),
   Route("GET", "/assignments", TRUE, Roles, "getAssignments"),
   Route("GET", "/assignments/stats", TRUE, Roles, "getAssignmentStats"),
   Route("GET", "/assignments/:id", TRUE, Roles, "getAssignmentById"),
   Route("PUT", "/assignments/:id", TRUE, Roles, "updateAssignment"),
   Route("DELETE", "/assignments/:id", TRUE, Roles, "deleteAssignment"),
   Route("POST", "/assignments/:id/submit", TRUE, Roles, "submitAssignment")}

\* The application: its own routes and the routers it mounts with
\* app.route(): /auth, /users and /upload.  The assignments router is
\* neither imported nor mounted.
AppRoutes ==
  {Route("GET", "/", FALSE, Roles, "root"),
   Route("GET", "/hello", FALSE, Roles, "hello"),
   Route("GET", "/admin/ping", TRUE, {"admin"}, "adminPing"),
   Route("GET", "/db-status", FALSE, Roles, "dbStatus")}
    \cup AuthRouter \cup UsersRouter \cup UploadRouter

\* The requests a client may send.
MethodInputs == {"GET", "POST", "PUT", "PATCH", "DELETE"}
PathInputs ==
  {r.path : r \in AppRoutes \cup AssignmentsRouter} \cup {"/nowhere"}
Requests == [method : MethodInputs, path : PathInputs, header : HeaderInputs]

\* The route of the application that serves the request, if any.
MatchRoute(req) == {r \in AppRoutes : r.method = req.method /\ r.path = req.path}

\* The request arrives at app.fetch.
Receive(p, req) ==
  /\ proc[p].pc = "idle"
  /\ proc' = [proc EXCEPT ![p] = [Idle EXCEPT !.pc = "dispatch", !.req = req]]
  /\ UNCHANGED <<users, assignments, tokens, now, db, env, cloud, client>>

\* The router and the middleware in front of the controller: Hono's 404 for
\* a request no route serves; authenticate, which answers 401 or sets the
\* identity from the token's payload; requireRole; then next() enters the
\* controller.
Dispatch(p) ==
  /\ proc[p].pc = "dispatch"
  /\ UNCHANGED <<users, assignments, tokens, now, db, env, cloud, client>>
  /\ LET req == proc[p].req
         tok == req.header.token
     IN IF MatchRoute(req) = {}
          THEN Reply(p, "notFound", 404, None)
        ELSE LET r == CHOOSE x \in MatchRoute(req) : TRUE
             IN IF ~r.auth
                  THEN proc' = [proc EXCEPT ![p] = [Idle EXCEPT !.pc = "controller",
                                  !.route = r.controller]]
                ELSE IF req.header.scheme # "Bearer"
                  THEN Reply(p, "authenticate", 401, "Authorization header required")
                ELSE IF ~Verify(tok, JwtKey(env), now)
                  THEN Reply(p, "authenticate", 401, "Invalid or expired token")
                ELSE IF tok.payload.role \notin r.roles
                  THEN Reply(p, "requireRole", 403, "Insufficient permissions")
                ELSE proc' = [proc EXCEPT ![p] = [Idle EXCEPT !.pc = "controller",
                                !.route = r.controller, !.uid = tok.payload.id,
                                !.email = tok.payload.email, !.role = tok.payload.role]]

\* The statuses a controller answers with.
ControllerStatuses == {200, 201, 400, 403, 404, 500, 503}

\* The controller runs with the identity the middleware set and answers;
\* what each controller does is the subject of its own actions above.
RunController(p) ==
  /\ proc[p].pc = "controller"
  /\ \E status \in ControllerStatuses :
       proc' = [proc EXCEPT ![p] = [Idle EXCEPT !.pc = "done",
                  !.resp = [Resp(proc[p].route, status, None) EXCEPT !.caller = proc[p].role]]]
  /\ UNCHANGED <<users, assignments, tokens, now, db, env, cloud, client>>

\* Requests to the application, one at a time, while time passes.
AppNext ==
  \/ Tick
  \/ \E req \in Requests : Receive(1, req)
  \/ Dispatch(1)
  \/ RunController(1)
  \/ Respond(1)

AppSpec == StaffedInit /\ [][AppNext]_vars

\* Creations and updates on the staffed database with one assignment, one
\* request at a time, while time passes.
DueDateNext ==
  \/ Tick
  \/ \E tok \in TokenInputs, title \in TitleInputs, desc \in DescInputs, due \in Dates :
       CreateHook(1, tok, title, desc, due)
  \/ CreateInsert(1)
  \/ \E tok \in TokenInputs, aid \in AssignmentIdInputs, b \in UpdateBodies :
       UpdateLoad(1, tok, aid, b)
  \/ UpdateSave(1)
  \/ Respond(1)

DueDateSpec == OpenInit /\ [][DueDateNext]_vars

\* Creations on the staffed database while the admin changes roles, one
\* request at a time: a token outlives the role it was issued with.
CreatorNext ==
  \/ \E tok \in TokenInputs, title \in TitleInputs, desc \in DescInputs, due \in Dates :
       CreateHook(1, tok, title, desc, due)
  \/ CreateInsert(1)
  \/ \E tok \in TokenInputs, id \in UserIdInputs, r \in Roles : UpdateRoleLoad(1, tok, id, r)
  \/ UpdateRoleSave(1)
  \/ Respond(1)

CreatorSpec == StaffedInit /\ [][CreatorNext]_vars

\* The staffed database with one assignment of the professor's, created
\* before the clock of the model starts: its due date may lie 12 hours
\* before that start.
AgedInit ==
  /\ users = StaffedUsers
  /\ tokens = StaffedTokens
  /\ now = 0
  /\ db = Serving
  /\ env = LocalEnv
  /\ cloud = {}
  /\ client = ClientStart
  /\ proc = [p \in Procs |-> Idle]
  /\ \E due \in (0 - 1)..MaxTime :
       assignments = << [exists |-> TRUE, title |-> "Essay", dueDate |-> due,
                         createdBy |-> 2, submissions |-> <<>>] >>

\* Updates of that assignment, one request at a time, while time passes.
FrameNext ==
  \/ Tick
  \/ \E tok \in TokenInputs, aid \in AssignmentIdInputs, b \in UpdateBodies :
       UpdateLoad(1, tok, aid, b)
  \/ UpdateSave(1)
  \/ Respond(1)

FrameSpec == AgedInit /\ [][FrameNext]_vars

\* Statistics on the two assignments while the student submits and time
\* passes, one request at a time.
StatsNext ==
  \/ Tick
  \/ \E tok \in TokenInputs, aid \in AssignmentIdInputs, n \in ContentLenInputs,
        url \in FileUrlInputs : SubmitLoad(1, tok, aid, n, url)
  \/ SubmitHook(1)
  \/ SubmitSave(1)
  \/ \E tok \in TokenInputs, second \in SecondReadings(now) : GetAssignmentStats(1, tok, second)
  \/ Respond(1)

StatsSpec == OwnedInit /\ [][StatsNext]_vars

\* ------------------------------------------------------ database connection
\* The process starts with no connection; MONGODB_URI is set or it is not.
ConnInit ==
  /\ users = <<>>
  /\ assignments = <<>>
  /\ tokens = {}
  /\ now = 0
  /\ db \in {[uri |-> u, readyState |-> Disconnected, attempts |-> 0] : u \in BOOLEAN}
  /\ env = LocalEnv
  /\ cloud = {}
  /\ client = ClientStart
  /\ proc = [p \in Procs |-> Idle]

\* The guard with the "connecting" state left out.
SkipConnectWhenConnectedOnly(state) == state = Connected

\* if (currentState === 1 || currentState === 2) return;
SkipConnect(state) == state = Connected \/ state = Connecting

\* connectToDatabase, up to its await: throws without a URI, returns when the
\* connection is open or opening, and otherwise calls mongoose.connect, which
\* marks the connection as connecting before the call is suspended.
ConnectToDatabase(p) ==
  /\ proc[p].pc = "idle"
  /\ (db.uri /\ ~SkipConnect(db.readyState)) => db.attempts < MaxAttempts
  /\ IF ~db.uri
       THEN /\ Reply(p, "connectToDatabase", 0, "MONGODB_URI environment variable is not set")
            /\ UNCHANGED db
       ELSE IF SkipConnect(db.readyState)
       THEN /\ Reply(p, "connectToDatabase", 0, None)
            /\ UNCHANGED db
       ELSE /\ db' = [db EXCEPT !.readyState = Connecting, !.attempts = @ + 1]
            /\ proc' = [proc EXCEPT ![p] = [Idle EXCEPT !.pc = "connect"]]
  /\ UNCHANGED <<users, assignments, tokens, now, env, cloud, client>>

\* await mongoose.connect(...) resolves: the caller logs and returns.
ConnectResolves ==
  /\ db.readyState = Connecting
  /\ db' = [db EXCEPT !.readyState = Connected]
  /\ proc' = [p \in Procs |->
                IF proc[p].pc = "connect"
                  THEN [Idle EXCEPT !.pc = "done", !.resp = Resp("connectToDatabase", 0, None)]
                  ELSE proc[p]]
  /\ UNCHANGED <<users, assignments, tokens, now, env, cloud, client>>

\* await mongoose.connect(...) rejects: the caller logs and rethrows.
ConnectRejects ==
  /\ db.readyState = Connecting
  /\ db' = [db EXCEPT !.readyState = Disconnected]
  /\ proc' = [p \in Procs |->
                IF proc[p].pc = "connect"
                  THEN [Idle EXCEPT !.pc = "done",
                                    !.resp = Resp("connectToDatabase", 0, "MongoDB connection failed")]
                  ELSE proc[p]]
  /\ UNCHANGED <<users, assignments, tokens, now, env, cloud, client>>

\* The connection starts to close (readyState 3) and ends closed (0).
ConnectionCloses ==
  /\ db.readyState = Connected
  /\ db' = [db EXCEPT !.readyState = Disconnecting]
  /\ UNCHANGED <<users, assignments, tokens, now, proc, env, cloud, client>>

ConnectionClosed ==
  /\ db.readyState = Disconnecting
  /\ db' = [db EXCEPT !.readyState = Disconnected]
  /\ UNCHANGED <<users, assignments, tokens, now, proc, env, cloud, client>>

ConnNext ==
  \/ \E p \in Procs : ConnectToDatabase(p)
  \/ ConnectResolves
  \/ ConnectRejects
  \/ ConnectionCloses
  \/ ConnectionClosed
  \/ \E p \in Procs : Respond(p)

ConnSpec == ConnInit /\ [][ConnNext]_vars

\* ----------------------------------------------------------------- uploads
\* 10 * 1024 * 1024 and 5 * 1024 * 1024 bytes
MaxFileSize == 10485760
MaxImageSize == 5242880

\* The allow-list of validateFile and the image types of uploadPostImage.
AllowedTypes ==
  {"application/pdf", "application/msword",
   "application/vnd.openxmlformats-officedocument.wordprocessingml.document",
   "text/plain", "image/jpeg", "image/png", "image/gif", "image/webp",
   "application/zip", "application/x-zip-compressed"}
ImageTypes == {"image/jpeg", "image/png", "image/gif", "image/webp"}

\* The multipart bodies a client may send: no field of the expected name, a
\* text field, or a file of some type at or just over one of the limits.
MimeInputs == {"application/pdf", "image/png", "text/html"}
SizeInputs == {MaxImageSize, MaxImageSize + 1, MaxFileSize, MaxFileSize + 1}
FormInputs ==
  {NoForm, [kind |-> "text", mimeType |-> None, size |-> 0]}
    \cup {[kind |-> "file", mimeType |-> m, size |-> n] : m \in MimeInputs, n \in SizeInputs}

\* The environments a deployment may run in.
EnvInputs == [jwtSecret : {None, "env-secret"}, cloudinary : BOOLEAN]

\* isCloudinaryConfigured
IsCloudinaryConfigured(e) == e.cloudinary

\* extractFileFromRequest: the error it throws, None when it returns the
\* file.  Its own "No file provided" is thrown inside the try block, and so
\* are the errors of formData() and arrayBuffer(); the catch block replaces
\* each by "Failed to process uploaded file".
ExtractFileFromRequest(form) ==
  IF form.kind = "file" THEN None ELSE "Failed to process uploaded file"

\* A validateFile that accepts every file.
ValidateFileAlways(file) == None

\* validateFile: the error it throws, None when it returns true.
ValidateFile(file) ==
  IF file.size > MaxFileSize THEN "File size exceeds 10MB limit"
  ELSE IF file.mimeType \notin AllowedTypes
    THEN "Invalid file type. Allowed types: PDF, DOC, DOCX, TXT, JPG, PNG, GIF, WEBP, ZIP"
  ELSE None

\* The two checks of uploadPostImage: the error text, None when both pass.
ValidateImage(file) ==
  IF file.mimeType \notin ImageTypes
    THEN "Invalid file type. Only JPG, PNG, GIF, and WEBP images are allowed"
  ELSE IF file.size > MaxImageSize THEN "Image size exceeds 5MB limit"
  ELSE None

\* error.message.includes(phrase), for the messages thrown on the way.
Includes(message, phrase) ==
  \/ message = "File size exceeds 10MB limit" /\ phrase = "File size exceeds"
  \/ /\ message = "Invalid file type. Allowed types: PDF, DOC, DOCX, TXT, JPG, PNG, GIF, WEBP, ZIP"
     /\ phrase = "Invalid file type"
  \/ message = "No file provided" /\ phrase = "No file provided"

\* return c.json(...) of an upload controller; the slot keeps the body the
\* request came with.
UploadReply(p, form, op, status, err) ==
  proc' = [proc EXCEPT ![p] = [Idle EXCEPT !.pc = "done", !.resp = Resp(op, status, err),
                                           !.form = form]]

\* The catch block of uploadAssignmentSubmission.
UploadCatch(p, form, message) ==
  IF Includes(message, "Invalid file type") \/ Includes(message, "File size exceeds")
    THEN UploadReply(p, form, "uploadAssignmentSubmission", 400, message)
  ELSE IF Includes(message, "No file provided")
    THEN UploadReply(p, form, "uploadAssignmentSubmission", 400, "Please select a file to upload")
  ELSE UploadReply(p, form, "uploadAssignmentSubmission", 500, "Failed to upload file")

\* The catch block of uploadPostImage.
ImageCatch(p, form, message) ==
  IF Includes(message, "Invalid file type") \/ Includes(message, "Image size exceeds")
    THEN UploadReply(p, form, "uploadPostImage", 400, message)
  ELSE IF Includes(message, "No file provided")
    THEN UploadReply(p, form, "uploadPostImage", 400, "Please select an image to upload")
  ELSE UploadReply(p, form, "uploadPostImage", 500, "Failed to upload image")

\* What the storage provider receives with uploadStream.end(buffer).
Forwarded(endpoint, uid, aid, file) ==
  [endpoint |-> endpoint, uid |-> uid, aid |-> aid, mimeType |-> file.mimeType,
   size |-> file.size]

\* uploadAssignmentSubmission up to Assignment.findById and the overdue test
\* on the loaded document; the body is read next.
UploadAssignmentLoad(p, tok, aid, form) ==
  /\ proc[p].pc = "idle"
  /\ UNCHANGED <<users, assignments, tokens, now, db, env, cloud, client>>
  /\ LET op == "uploadAssignmentSubmission"
     IN IF ~Authenticated(tok)
          THEN UploadReply(p, form, op, 401, "Authorization header required")
        ELSE IF tok.role # "student"
          THEN UploadReply(p, form, op, 403, "Only students can upload assignment files")
        ELSE IF ~IsCloudinaryConfigured(env)
          THEN UploadReply(p, form, op, 503, "File upload service not configured")
        ELSE IF ~IsValidObjectId(aid)
          THEN UploadReply(p, form, op, 400, "Valid assignment ID is required")
        ELSE IF ~Stored(aid)
          THEN UploadReply(p, form, op, 404, "Assignment not found")
        ELSE IF IsOverdue(assignments[aid], now)
          THEN UploadReply(p, form, op, 400, "Assignment submission deadline has passed")
        ELSE proc' = [proc EXCEPT ![p] = [Idle EXCEPT !.pc = "upExtract", !.aid = aid,
                        !.uid = tok.id, !.role = tok.role, !.val = now, !.form = form]]

\* extractFileFromRequest, validateFile and uploadAssignmentFile, which
\* hands the buffer to the provider; the provider stores it or fails.
UploadAssignmentForward(p) ==
  /\ proc[p].pc = "upExtract"
  /\ UNCHANGED <<users, assignments, tokens, now, db, env, client>>
  /\ LET form == proc[p].form
     IN IF ExtractFileFromRequest(form) # None
          THEN UploadCatch(p, form, ExtractFileFromRequest(form)) /\ UNCHANGED cloud
        ELSE IF ValidateFile(form) # None
          THEN UploadCatch(p, form, ValidateFile(form)) /\ UNCHANGED cloud
        ELSE /\ Cardinality(cloud) < MaxUploads
             /\ cloud' = cloud \cup {Forwarded("assignment", proc[p].uid, proc[p].aid, form)}
             /\ \/ UploadReply(p, form, "uploadAssignmentSubmission", 201, None)
                \/ UploadCatch(p, form, "Upload failed")

\* uploadPostImage up to the reading of the body.
UploadImageStart(p, tok, form) ==
  /\ proc[p].pc = "idle"
  /\ UNCHANGED <<users, assignments, tokens, now, db, env, cloud, client>>
  /\ IF ~Authenticated(tok)
       THEN UploadReply(p, form, "uploadPostImage", 401, "Authorization header required")
     ELSE IF ~IsCloudinaryConfigured(env)
       THEN UploadReply(p, form, "uploadPostImage", 503, "Image upload service not configured")
     ELSE proc' = [proc EXCEPT ![p] = [Idle EXCEPT !.pc = "imgExtract", !.uid = tok.id,
                     !.role = tok.role, !.form = form]]

\* extractFileFromRequest, the type and size checks and uploadPostImageService.
UploadImageForward(p) ==
  /\ proc[p].pc = "imgExtract"
  /\ UNCHANGED <<users, assignments, tokens, now, db, env, client>>
  /\ LET form == proc[p].form
     IN IF ExtractFileFromRequest(form) # None
          THEN ImageCatch(p, form, ExtractFileFromRequest(form)) /\ UNCHANGED cloud
        ELSE IF ValidateImage(form) # None
          THEN UploadReply(p, form, "uploadPostImage", 400, ValidateImage(form))
               /\ UNCHANGED cloud
        ELSE /\ Cardinality(cloud) < MaxUploads
             /\ cloud' = cloud \cup {Forwarded("post-image", proc[p].uid, 0, form)}
             /\ \/ UploadReply(p, form, "uploadPostImage", 201, None)
                \/ ImageCatch(p, form, "Upload failed")

\* The staffed database with one assignment, in any environment.
UploadInit ==
  /\ users = StaffedUsers
  /\ tokens = StaffedTokens
  /\ now = 0
  /\ db = Serving
  /\ env \in EnvInputs
  /\ cloud = {}
  /\ client = ClientStart
  /\ proc = [p \in Procs |-> Idle]
  /\ \E due \in Dates :
       assignments = << [exists |-> TRUE, title |-> "Essay", dueDate |-> due,
                         createdBy |-> 1, submissions |-> <<>>] >>

\* GET /auth/me with a bearer token.
ProfileRequests ==
  {[method |-> "GET", path |-> "/auth/me", header |-> [scheme |-> "Bearer", token |-> t]] :
     t \in JwtInputs}

\* Uploads, logins and requests for the caller's profile, one request at a
\* time, while time passes.
UploadNext ==
  \/ Tick
  \/ \E tok \in TokenInputs, aid \in AssignmentIdInputs, form \in FormInputs :
       UploadAssignmentLoad(1, tok, aid, form)
  \/ UploadAssignmentForward(1)
  \/ \E tok \in TokenInputs, form \in FormInputs : UploadImageStart(1, tok, form)
  \/ UploadImageForward(1)
  \/ \E email \in EmailInputs, pw \in PasswordInputs : LoginUser(1, email, pw)
  \/ \E req \in ProfileRequests : Receive(1, req)
  \/ Dispatch(1)
  \/ RunController(1)
  \/ Respond(1)

UploadSpec == UploadInit /\ [][UploadNext]_vars

\* ------------------------------------------------------ client: user list
\* The roles of the stored users by id: what GET /users answers.
ServerRoles == [i \in 1..Len(users) |-> users[i].role]

\* The token of the admin who uses the table.
AdminToken == [id |-> 1, email |-> "a@x.io", role |-> "admin"]

\* previousUsers.map(user => user.id === userId ? { ...user, role } : user)
Optimistic(cache, userId, role) ==
  [i \in 1..Len(cache) |-> IF i = userId THEN role ELSE cache[i]]

\* An onError that leaves the cache as it is.
RollbackNever(cache, snapshot) == cache

\* onError: setQueryData(list, context.previousUsers)
Rollback(cache, snapshot) == snapshot

\* The admin dashboard with the user list loaded.
ListInit ==
  /\ users = StaffedUsers
  /\ assignments = <<>>
  /\ tokens = StaffedTokens
  /\ now = 0
  /\ db = Serving
  /\ env = LocalEnv
  /\ cloud = {}
  /\ proc = [p \in Procs |-> Idle]
  /\ client = [ClientStart EXCEPT !.list.cache = [i \in 1..Len(StaffedUsers) |->
                                                    StaffedUsers[i].role]]

\* mutate({ userId, role }) and onMutate: the fetch in flight is cancelled,
\* the cache is kept as previousUsers and replaced by the optimistic list;
\* mutationFn then sends the PATCH.
OnMutate(m, userId, role) ==
  /\ client.list.muts[m].state # "sent"
  /\ proc[m].pc = "idle"
  /\ client' = [client EXCEPT
       !.list.fetch = [state |-> "none", data |-> <<>>],
       !.list.cache = Optimistic(client.list.cache, userId, role),
       !.list.muts[m] = [state |-> "sent", userId |-> userId, role |-> role,
                         snapshot |-> client.list.cache]]
  /\ UNCHANGED <<users, assignments, tokens, now, proc, db, env, cloud>>

\* The PATCH /users/:id/role of mutation m reaches the server.
ServeRoleUpdate(m) ==
  /\ client.list.muts[m].state = "sent"
  /\ UpdateRoleLoad(m, AdminToken, client.list.muts[m].userId, client.list.muts[m].role)

\* invalidateQueries({ queryKey: list }): a fetch in flight is cancelled and
\* the list is fetched again.
Invalidated == [state |-> "sent", data |-> <<>>]

\* The response arrives: onError rolls back unless the status is 200, and
\* onSettled invalidates the list.
MutationSettles(m) ==
  /\ client.list.muts[m].state = "sent"
  /\ proc[m].pc = "done"
  /\ client' = [client EXCEPT
       !.list.fetch = Invalidated,
       !.list.cache = IF proc[m].resp.status = 200
                        THEN @ ELSE Rollback(@, client.list.muts[m].snapshot),
       !.list.muts[m] = [NoMutation EXCEPT
                           !.state = IF proc[m].resp.status = 200 THEN "success" ELSE "error"]]
  /\ proc' = [proc EXCEPT ![m] = Idle]
  /\ UNCHANGED <<users, assignments, tokens, now, db, env, cloud>>

\* fetch fails: the request or the response is lost, apiRequest throws the
\* ApiError with status 0.
MutationFailsOffline(m) ==
  /\ client.list.muts[m].state = "sent"
  /\ proc[m].pc \in {"idle", "done"}
  /\ client' = [client EXCEPT
       !.list.fetch = Invalidated,
       !.list.cache = Rollback(@, client.list.muts[m].snapshot),
       !.list.muts[m] = [NoMutation EXCEPT !.state = "error"]]
  /\ proc' = [proc EXCEPT ![m] = Idle]
  /\ UNCHANGED <<users, assignments, tokens, now, db, env, cloud>>

\* GET /users is answered: getAllUsers reads the collection.
FetchServed ==
  /\ client.list.fetch.state = "sent"
  /\ client' = [client EXCEPT !.list.fetch = [state |-> "served", data |-> ServerRoles]]
  /\ UNCHANGED <<users, assignments, tokens, now, proc, db, env, cloud>>

\* The answer arrives and becomes the cached list.
FetchDone ==
  /\ client.list.fetch.state = "served"
  /\ client' = [client EXCEPT !.list.fetch = [state |-> "none", data |-> <<>>],
                               !.list.cache = client.list.fetch.data]
  /\ UNCHANGED <<users, assignments, tokens, now, proc, db, env, cloud>>

\* The roles the admin picks in the dropdown of a row.
RoleChoices == {"admin", "student"}

\* The admin changes roles in the rows of the first users, up to two updates
\* in flight.
ListNext ==
  \/ \E m \in Procs, userId \in UserIdInputs, role \in RoleChoices : OnMutate(m, userId, role)
  \/ \E m \in Procs : ServeRoleUpdate(m)
  \/ \E m \in Procs : UpdateRoleSave(m)
  \/ \E m \in Procs : MutationSettles(m)
  \/ \E m \in Procs : MutationFailsOffline(m)
  \/ FetchServed
  \/ FetchDone

ListSpec == ListInit /\ [][ListNext]_vars

\* ------------------------------------------------------ client: auth context
\* The tokens a browser may hold from an earlier session: issued by this
\* server long ago, almost seven days ago or just now.
StoredTokenInputs ==
  {Sign(pl, JwtKey(LocalEnv), iat) : pl \in StaffedTokens, iat \in IssuedAtInputs} \cup {NoJwt}

\* The browser opens the application: useState(() => tokenUtils.get()).
AuthInit ==
  /\ users = StaffedUsers
  /\ assignments = <<>>
  /\ tokens = StaffedTokens
  /\ now = 0
  /\ db = Serving
  /\ env = LocalEnv
  /\ cloud = {}
  /\ proc = [p \in Procs |-> Idle]
  /\ \E t \in StoredTokenInputs :
       client = [ClientStart EXCEPT !.auth = [SignedOut EXCEPT !.stored = t, !.token = t]]

\* handleLogin after a successful login: the token the server signed is
\* stored and set, with the user.
HandleLogin(payload) ==
  /\ client.auth.pc = "idle"
  /\ client' = [client EXCEPT !.auth = [@ EXCEPT
                   !.stored = Sign(payload, JwtKey(env), now),
                   !.token = Sign(payload, JwtKey(env), now),
                   !.user = payload.id]]
  /\ UNCHANGED <<users, assignments, tokens, now, proc, db, env, cloud>>

\* handleLogout: tokenUtils.remove(), setToken(null), setUser(null)
HandleLogout(a) == [a EXCEPT !.stored = NoJwt, !.token = NoJwt, !.user = 0]

\* The user clicks logout.
Logout ==
  /\ client' = [client EXCEPT !.auth = HandleLogout(@)]
  /\ UNCHANGED <<users, assignments, tokens, now, proc, db, env, cloud>>

\* refreshUser up to its await: without a token in the state the user is
\* set to null; otherwise apiRequest sends GET /auth/me with the token of
\* localStorage, if there is one.
RefreshUser ==
  /\ client.auth.pc = "idle"
  /\ client' = [client EXCEPT !.auth =
                   IF client.auth.token = NoJwt
                     THEN [@ EXCEPT !.user = 0]
                     ELSE [@ EXCEPT !.pc = "refreshing", !.sent = client.auth.stored]]
  /\ UNCHANGED <<users, assignments, tokens, now, proc, db, env, cloud>>

\* What the server answers to GET /auth/me: authenticate's 401 or the
\* profile; 0 stands for a request that got no answer.
ProfileStatus(token, e, t) ==
  IF token = NoJwt \/ ~Verify(token, JwtKey(e), t) THEN 401 ELSE 200

\* error instanceof Error, for what apiRequest throws: an ApiError is an
\* object literal { status, message }, not an Error.
IsErrorInstance(status) == FALSE

\* The rest of refreshUser: the user of the answer is set; in the catch
\* block handleLogout runs for an Error with status 401, and the user is set
\* to null.
RefreshSettles(status) ==
  /\ client.auth.pc = "refreshing"
  /\ status \in {0, ProfileStatus(client.auth.sent, env, now)}
  /\ client' = [client EXCEPT !.auth =
                   IF status = 200
                     THEN [@ EXCEPT !.pc = "idle", !.status = status,
                                    !.user = client.auth.sent.payload.id]
                   ELSE IF IsErrorInstance(status) /\ status = 401
                     THEN [HandleLogout(@) EXCEPT !.pc = "idle", !.status = status]
                   ELSE [@ EXCEPT !.pc = "idle", !.status = status, !.user = 0]]
  /\ UNCHANGED <<users, assignments, tokens, now, proc, db, env, cloud>>

\* The browser's session: logins, logouts and refreshes while time passes.
AuthNext ==
  \/ Tick
  \/ \E payload \in StaffedTokens : HandleLogin(payload)
  \/ Logout
  \/ RefreshUser
  \/ \E status \in {0, 200, 401} : RefreshSettles(status)

AuthSpec == AuthInit /\ [][AuthNext]_vars

\* ------------------------------------------------------ client: query client
\* The statuses of the ApiError that apiRequest throws: the status of the
\* response, or 0 when fetch itself failed.
ErrorStatusInputs == {0, 400, 401, 403, 404, 500}

\* A retry option that does not look at the status.
RetryWhateverStatus(failureCount, status) == failureCount < 3

\* defaultOptions.queries.retry
Retry(failureCount, status) ==
  IF status \in {401, 403, 404} THEN FALSE ELSE failureCount < 3

\* The retryer's decision after a failed attempt: the retry option of the
\* kind, called with the failures counted before this one; false for a
\* mutation.
ShouldRetry(k, failureCount, status) ==
  IF IsMutation(k) THEN FALSE ELSE Retry(failureCount, status)

\* A browser that has run nothing yet.
QueryInit ==
  /\ users = StaffedUsers
  /\ assignments = <<>>
  /\ tokens = StaffedTokens
  /\ now = 0
  /\ db = Serving
  /\ env = LocalEnv
  /\ cloud = {}
  /\ proc = [p \in Procs |-> Idle]
  /\ client = ClientStart

\* The query is fetched, or the mutation is started: the first attempt.
QueryStarts(k) ==
  /\ client.query[k].state # "fetching"
  /\ client' = [client EXCEPT !.query[k] =
                   [Unfetched EXCEPT !.state = "fetching", !.attempts = 1]]
  /\ UNCHANGED <<users, assignments, tokens, now, proc, db, env, cloud>>

\* apiRequest returns.
AttemptSucceeds(k) ==
  /\ client.query[k].state = "fetching"
  /\ client' = [client EXCEPT !.query[k].state = "success"]
  /\ UNCHANGED <<users, assignments, tokens, now, proc, db, env, cloud>>

\* apiRequest throws: the retryer either counts the failure and runs the
\* function again or rejects.
AttemptFails(k, status) ==
  /\ client.query[k].state = "fetching"
  /\ client.query[k].attempts < MaxQueryAttempts
  /\ client' = [client EXCEPT !.query[k] =
                   IF ShouldRetry(k, client.query[k].failureCount, status)
                     THEN [@ EXCEPT !.failureCount = @ + 1, !.attempts = @ + 1,
                                    !.error = status]
                     ELSE [@ EXCEPT !.state = "error", !.error = status]]
  /\ UNCHANGED <<users, assignments, tokens, now, proc, db, env, cloud>>

QueryNext ==
  \/ \E k \in QueryKeys : QueryStarts(k)
  \/ \E k \in QueryKeys : AttemptSucceeds(k)
  \/ \E k \in QueryKeys, status \in ErrorStatusInputs : AttemptFails(k, status)

QuerySpec == QueryInit /\ [][QueryNext]_vars

\* ================================================================ claims
\* The response slot p holds, once its handler has replied.
Replied(p, op, status, err) ==
  /\ proc[p].pc = "done"
  /\ proc[p].resp.op = op /\ proc[p].resp.status = status /\ proc[p].resp.err = err

\* C1: in every reachable state, also under interleaved submitAssignment
\* requests, each assignment holds at most one submission per student.
C1_OneSubmissionPerStudent ==
  \A i \in 1..Len(assignments) :
    \A k, l \in 1..Len(assignments[i].submissions) :
      k # l => assignments[i].submissions[k].studentId # assignments[i].submissions[l].studentId

\* C2: under any interleaving of register requests, exactly the first user
\* stored is given the role admin by registration and every other one the
\* role student.  (RegisterRace has no role updates: a stored role is the one
\* registration gave.)
C2_OnlyFirstUserAdmin ==
  \A i \in 1..Len(users) : users[i].role = IF i = 1 THEN "admin" ELSE "student"

\* C3: with registrations handled one after the other, the user a
\* registration stores is admin when the collection was empty and student
\* otherwise, whatever role the request body names.
C3_SequentialRegistrationRole ==
  [][RegisterCreate(1) /\ Len(users') = Len(users) + 1
       => users'[Len(users')].role = (IF Len(users) = 0 THEN "admin" ELSE "student")]_vars

\* C3 witness: a second registration has just stored a student after the
\* admin.
C3_Witness ==
  /\ Replied(1, "register", 201, None)
  /\ Len(users) = 2
  /\ users[1].role = "admin"
  /\ users[2].role = "student"

\* The handler in slot p replies with this response in the step.
Replies(p, op, status, err) ==
  /\ proc'[p].pc = "done"
  /\ proc'[p].resp.op = op /\ proc'[p].resp.status = status /\ proc'[p].resp.err = err

\* The stored assignment aid holds a submission of user uid.
SubmittedBy(aid, uid) ==
  \E k \in 1..Len(assignments[aid].submissions) :
    assignments[aid].submissions[k].studentId = uid

\* C4 as stated: a submitAssignment request by a student who already has a
\* submission in the assignment always fails with the duplicate-submission
\* error (400) and leaves the assignments unchanged.
C4_DuplicateSubmissionError ==
  [][\A tok \in tokens, aid \in 1..Len(assignments) :
       (/\ tok.role = "student"
        /\ Stored(aid)
        /\ SubmittedBy(aid, tok.id))
       => \A n \in ContentLenInputs, url \in FileUrlInputs :
            SubmitLoad(1, tok, aid, n, url)
              => /\ Replies(1, "submitAssignment", 400, "You have already submitted this assignment")
                 /\ assignments' = assignments]_vars

\* C4 amended: such a request always fails with 400 and leaves the
\* assignments unchanged; the error is the duplicate-submission error when
\* the body is valid and the assignment is not overdue, the validation error
\* for an invalid body, else the overdue error.
C4_DuplicateSubmissionFails ==
  [][\A tok \in tokens, aid \in 1..Len(assignments) :
       (/\ tok.role = "student"
        /\ Stored(aid)
        /\ SubmittedBy(aid, tok.id))
       => \A n \in ContentLenInputs, url \in FileUrlInputs :
            SubmitLoad(1, tok, aid, n, url)
              => /\ Replies(1, "submitAssignment", 400,
                            IF ~SubmitValid(n, url) THEN "Validation failed"
                            ELSE IF IsOverdue(assignments[aid], now)
                              THEN "Assignment submission deadline has passed"
                            ELSE "You have already submitted this assignment")
                 /\ assignments' = assignments]_vars

\* C4 witness: a second submission has just been refused as a duplicate.
C4_Witness ==
  /\ Replied(1, "submitAssignment", 400, "You have already submitted this assignment")
  /\ \E i \in 1..Len(assignments) : Len(assignments[i].submissions) = 1
\* C5: a submitAssignment request handled after the assignment's due date
\* fails whatever its body holds, and the save of a submission never stores
\* one whose submission time is later than the due date the assignment has
\* when it is stored, also when a due-date update or the passing of time
\* falls between the overdue check and the save.
C5_NoSubmissionAfterDueDate ==
  [][/\ \A p \in Procs, tok \in tokens, aid \in 1..Len(assignments) :
          (/\ tok.role = "student"
           /\ Stored(aid)
           /\ now > assignments[aid].dueDate)
          => \A n \in ContentLenInputs, url \in FileUrlInputs :
               SubmitLoad(p, tok, aid, n, url)
                 => /\ proc'[p].pc = "done"
                    /\ proc'[p].resp.status = 400
                    /\ assignments' = assignments
     /\ \A p \in Procs :
          (SubmitSave(p) /\ assignments' # assignments)
            => proc[p].val <= assignments'[proc[p].aid].dueDate]_vars
\* The token is an admin's, or that of the professor who created the
\* stored assignment aid.
MayManage(tok, aid) ==
  \/ tok.role = "admin"
  \/ tok.role = "professor" /\ assignments[aid].createdBy = tok.id

\* C6: deleteAssignment by an admin or by the professor who created the
\* assignment, on a stored assignment, replies 400 and leaves the assignment
\* stored when it holds at least one submission; when it holds none the
\* handler goes on to remove it, replies 200, and the assignment is gone.
C6_DeleteGuardedBySubmissions ==
  [][/\ \A tok \in tokens, aid \in 1..Len(assignments) :
          (Stored(aid) /\ MayManage(tok, aid))
          => (DeleteLoad(1, tok, aid)
                => IF Len(assignments[aid].submissions) >= 1
                     THEN /\ Replies(1, "deleteAssignment", 400,
                                     "Cannot delete assignment with existing submissions")
                          /\ assignments' = assignments
                     ELSE /\ proc'[1].pc = "delRemove"
                          /\ proc'[1].aid = aid)
     /\ DeleteRemove(1)
          => /\ Replies(1, "deleteAssignment", 200, "Assignment deleted successfully")
             /\ ~assignments'[proc[1].aid].exists]_vars

\* C6 witness: a delete has just been refused for an assignment that holds
\* a submission and is still stored.
C6_Witness ==
  /\ Replied(1, "deleteAssignment", 400, "Cannot delete assignment with existing submissions")
  /\ \E i \in 1..Len(assignments) : Stored(i) /\ Len(assignments[i].submissions) >= 1
\* The roles a request body may name that are not admin, valid or not.
NonAdminRoleInputs == (Roles \cup {"root"}) \ {"admin"}

\* C7 as stated: updateUserRole on the caller's own user with a new role
\* other than admin always replies 400 and leaves the users unchanged.
C7_SelfDemotionAlways400 ==
  [][\A tok \in tokens, r \in NonAdminRoleInputs :
       UpdateRoleLoad(1, tok, tok.id, r)
         => /\ proc'[1].pc = "done"
            /\ proc'[1].resp.status = 400
            /\ users' = users]_vars

\* C7 amended: such a request always fails and leaves the users unchanged,
\* with 400 when the caller's token carries the role admin and with 403
\* otherwise; and updateUserRole with an admin's token and a valid role on a
\* different user who is stored as admin goes on to the save, which replies
\* 200 and stores the new role.
C7_SelfDemotionRefused ==
  [][/\ \A tok \in tokens, r \in NonAdminRoleInputs :
          UpdateRoleLoad(1, tok, tok.id, r)
            => /\ proc'[1].pc = "done"
               /\ proc'[1].resp.status = (IF tok.role = "admin" THEN 400 ELSE 403)
               /\ users' = users
     /\ \A tok \in tokens, id \in 1..Len(users), r \in Roles :
          (tok.role = "admin" /\ id # tok.id /\ users[id].role = "admin")
          => (UpdateRoleLoad(1, tok, id, r)
                => proc'[1].pc = "roleSave" /\ proc'[1].uid = id /\ proc'[1].role = r)
     /\ UpdateRoleSave(1)
          => /\ Replies(1, "updateUserRole", 200, None)
             /\ users'[proc[1].uid].role = proc[1].role]_vars

\* C7 witness: an admin has just been refused the demotion of their own
\* user, which is still stored as admin.
C7_Witness ==
  /\ Replied(1, "updateUserRole", 400, "You cannot change your own admin role")
  /\ users[1].role = "admin"
\* C8: getAllUsers and getUserStats reply 200, and updateUserRole gets as
\* far as changing a stored role, only for a caller whose user is stored
\* with the role admin when the request is handled, whatever role the
\* presented token was issued with.
C8_OnlyStoredAdminsAdminister ==
  [][\A tok \in tokens :
       /\ (GetAllUsers(1, tok) /\ proc'[1].resp.status = 200)
            => users[tok.id].role = "admin"
       /\ (GetUserStats(1, tok) /\ proc'[1].resp.status = 200)
            => users[tok.id].role = "admin"
       /\ \A id \in UserIdInputs, r \in Roles :
            (UpdateRoleLoad(1, tok, id, r) /\ proc'[1].pc = "roleSave")
              => users[tok.id].role = "admin"]_vars
\* The assignments a returned list holds.
Listed(lst) == {lst[k] : k \in 1..Len(lst)}

\* The tokens issued with the given role.
TokensOf(role) == {tok \in tokens : tok.role = role}

\* C9 as stated: for every valid query, a list getAssignments returns to a
\* professor holds only assignments that professor created, and a list it
\* returns to an admin for the same query holds every assignment of the
\* professor's list.
C9_AdminListHoldsProfessorList ==
  \A q \in {x \in Queries : QueryValid(x)}, ptok \in TokensOf("professor") :
    \A pl \in ListResults(ptok, q) :
      /\ \A i \in Listed(pl) : assignments[i].createdBy = ptok.id
      /\ \A atok \in TokensOf("admin") :
           \A al \in ListResults(atok, q) : Listed(pl) \subseteq Listed(al)

\* C9 amended: a professor's list holds only assignments that professor
\* created, and every assignment of it is matched by the admin's query with
\* the same status filter, sort and limit: it is on one of the pages of the
\* admin's listing, not always the page the professor asked for.
C9_AdminListingHoldsProfessorList ==
  \A q \in {x \in Queries : QueryValid(x)}, ptok \in TokensOf("professor") :
    \A pl \in ListResults(ptok, q) :
      /\ \A i \in Listed(pl) : assignments[i].createdBy = ptok.id
      /\ \A atok \in TokensOf("admin") :
           \A al \in SortedLists(StatusFilter(RoleFilter(atok), q.status, now),
                                 q.sortBy, q.sortOrder) :
             Listed(pl) \subseteq
               UNION {Listed(PageOf(al, pg, q.limit)) : pg \in 1..Len(assignments)}

\* C9 witness: a professor has just been returned a list that holds an
\* assignment, while an assignment of another creator is stored.
C9_Witness ==
  /\ proc[1].pc = "done"
  /\ proc[1].resp.op = "getAssignments"
  /\ proc[1].resp.caller = "professor"
  /\ Len(proc[1].resp.list) >= 1
  /\ \E i \in 1..Len(assignments), j \in Listed(proc[1].resp.list) :
       Stored(i) /\ assignments[i].createdBy # assignments[j].createdBy
\* The token is a professor's and the stored assignment aid was created by
\* another user.
ForeignTo(tok, aid) == tok.role = "professor" /\ assignments[aid].createdBy # tok.id

\* The handler in slot 1 replies with this status and the assignments stay
\* as they are.
Refuses(status) ==
  /\ proc'[1].pc = "done"
  /\ proc'[1].resp.status = status
  /\ assignments' = assignments

\* What C10 says of requests that are not updateAssignment by a professor on
\* another user's assignment: getAssignmentById and deleteAssignment by such
\* a professor reply 403 and change nothing; a student's update or delete
\* replies 403; an admin is never answered 403; a student's
\* getAssignmentById of a stored assignment goes on to read it.
C10_OtherAccessRules ==
  \A tok \in tokens :
    /\ \A aid \in 1..Len(assignments) :
         /\ (Stored(aid) /\ ForeignTo(tok, aid))
              => /\ GetByIdLoad(1, tok, aid) => Refuses(403)
                 /\ DeleteLoad(1, tok, aid) => Refuses(403)
         /\ (Stored(aid) /\ tok.role = "student")
              => (GetByIdLoad(1, tok, aid) => proc'[1].pc = "getPopulate")
    /\ \A aid \in AssignmentIdInputs :
         /\ tok.role = "student"
              => /\ DeleteLoad(1, tok, aid) => Refuses(403)
                 /\ \A b \in UpdateBodies : UpdateLoad(1, tok, aid, b) => Refuses(403)
         /\ tok.role = "admin"
              => /\ GetByIdLoad(1, tok, aid) => proc'[1].resp.status # 403
                 /\ DeleteLoad(1, tok, aid) => proc'[1].resp.status # 403
                 /\ \A b \in UpdateBodies :
                      UpdateLoad(1, tok, aid, b) => proc'[1].resp.status # 403

\* C10 as stated: besides those rules, updateAssignment by a professor on a
\* stored assignment of another user replies 403 and leaves it unchanged.
C10_ForeignProfessorAlways403 ==
  [][/\ C10_OtherAccessRules
     /\ \A tok \in tokens, aid \in 1..Len(assignments) :
          (Stored(aid) /\ ForeignTo(tok, aid))
            => \A b \in UpdateBodies : UpdateLoad(1, tok, aid, b) => Refuses(403)]_vars

\* C10 amended: besides those rules, updateAssignment by a professor on a
\* stored assignment of another user leaves it unchanged and replies 403
\* when the body is valid, 400 when it is not (the body is validated before
\* the ownership check).
C10_ForeignProfessorRefused ==
  [][/\ C10_OtherAccessRules
     /\ \A tok \in tokens, aid \in 1..Len(assignments) :
          (Stored(aid) /\ ForeignTo(tok, aid))
            => \A b \in UpdateBodies :
                 UpdateLoad(1, tok, aid, b)
                   => Refuses(IF UpdateValid(b, now) THEN 403 ELSE 400)]_vars

\* C10 witness: a professor has just been refused the update of an
\* assignment, and an assignment created by another user is stored.
C10_Witness ==
  /\ Replied(1, "updateAssignment", 403, "Access denied")
  /\ \E i \in 1..Len(assignments) : Stored(i) /\ assignments[i].createdBy = 1
\* The request in slot 1 is for a route that has authenticate in front of
\* its controller.
BehindAuthenticate ==
  \E r \in AppRoutes :
    r.method = proc[1].req.method /\ r.path = proc[1].req.path /\ r.auth

\* The Authorization header of the request in slot 1 is missing, does not
\* start with "Bearer ", or its token is no JWT, is signed with another key
\* or has reached its expiry.
BadCredentials ==
  LET h == proc[1].req.header
  IN \/ h.scheme # "Bearer"
     \/ ~h.token.wellFormed
     \/ h.token.key # JwtSecret
     \/ now >= h.token.exp

\* C11: a request behind authenticate whose Authorization header is missing,
\* is not a Bearer header, or carries a token with a bad signature or past
\* its expiry is answered 401 and its controller is not entered; the
\* controller is entered only with a valid token, and then with the
\* identity the token's payload holds.
C11_AuthenticateGuardsController ==
  [][(Dispatch(1) /\ BehindAuthenticate)
       => /\ BadCredentials
               => /\ proc'[1].pc = "done"
                  /\ proc'[1].resp.status = 401
                  /\ proc'[1].resp.err # None
          /\ proc'[1].pc = "controller"
               => /\ ~BadCredentials
                  /\ proc'[1].uid = proc[1].req.header.token.payload.id
                  /\ proc'[1].email = proc[1].req.header.token.payload.email
                  /\ proc'[1].role = proc[1].req.header.token.payload.role]_vars

\* C11 witness: a request with a Bearer token that does not verify has just
\* been answered 401 after the first tokens expired.
C11_Witness ==
  /\ Replied(1, "authenticate", 401, "Invalid or expired token")
  /\ now >= 1
\* The protected endpoints of the specification's interface.
ProtectedEndpoints ==
  {<<"GET", "/auth/me">>,
   <<"GET", "/assignments">>, <<"POST", "/assignments">>,
   <<"GET", "/assignments/:id">>, <<"PUT", "/assignments/:id">>,
   <<"DELETE", "/assignments/:id">>,
   <<"POST", "/assignments/:id/submit">>, <<"GET", "/assignments/stats">>,
   <<"GET", "/users">>, <<"PATCH", "/users/:id/role">>, <<"GET", "/users/stats">>,
   <<"POST", "/upload/assignment/:assignmentId">>, <<"POST", "/upload/post-image">>,
   <<"GET", "/upload/info">>, <<"GET", "/upload/status">>}

\* C12: a request to a protected endpoint without a valid bearer token is
\* answered by the application with 401 and a JSON error body, and its
\* controller is not entered.
C12_ProtectedEndpointsAnswer401 ==
  [][(/\ Dispatch(1)
      /\ <<proc[1].req.method, proc[1].req.path>> \in ProtectedEndpoints
      /\ BadCredentials)
       => /\ proc'[1].pc = "done"
          /\ proc'[1].resp.status = 401
          /\ proc'[1].resp.err # None]_vars
\* A user with this email is stored.
Registered(email) == \E i \in 1..Len(users) : users[i].email = email

\* A user with this email is stored, and pw is not that user's password.
WrongPasswordFor(email, pw) ==
  /\ Registered(email)
  /\ \A i \in 1..Len(users) : users[i].email = email => users[i].passwordHash # Hash(pw)

\* C13: a login with an unknown email and a login with a known email and a
\* wrong password get the same response, 401 with one error text: every
\* login step of the first kind is also a login step of the second kind,
\* for every such pair of well-formed requests.
C13_LoginFailuresAlike ==
  [][\A e1, e2 \in Emails, pw1, pw2 \in PasswordInputs :
       (/\ Len(pw1) >= 6 /\ Len(pw2) >= 6
        /\ ~Registered(e1)
        /\ WrongPasswordFor(e2, pw2)
        /\ LoginUser(1, e1, pw1))
       => /\ LoginUser(1, e2, pw2)
          /\ proc'[1].resp.status = 401]_vars

\* C13 witness: a login has just been refused while one email is registered
\* and another is not.
C13_Witness ==
  /\ Replied(1, "login", 401, "Invalid email or password")
  /\ \E e1, e2 \in Emails : ~Registered(e1) /\ Registered(e2)
\* No two users of the list share an email.
UniqueEmails(us) ==
  \A i, j \in 1..Len(us) : i # j => us[i].email # us[j].email

\* C14: a well-formed register request whose email is registered, when the
\* handler looks it up or by the time it creates the user, is answered 409
\* and stores no user, and no step of a registration, also of concurrent
\* ones with one email, leaves two stored users with the same email.
C14_RegisteredEmailConflict ==
  [][\A p \in Procs :
       /\ \A email \in Emails :
            Registered(email)
            => \A pw \in PasswordInputs, r \in RoleInputs, n \in {1, 2} :
                 (Len(pw) >= 6 /\ n >= 2 /\ RegisterFind(p, email, pw, r, n))
                   => /\ Replies(p, "register", 409, "Email already registered")
                      /\ users' = users
       /\ RegisterCreate(p)
            => /\ UniqueEmails(users')
               /\ Registered(proc[p].email)
                    => /\ Replies(p, "register", 409, "Email already registered")
                       /\ users' = users]_vars
\* The due date is 24 hours or more before the time t.
DayOrMorePast(date, t) == date <= t - DayTicks

\* C15: with a professor's or an admin's token, a createAssignment or
\* updateAssignment that gets through its validation leaves the assignment
\* with a due date later than 24 hours before the time of the validation,
\* which is the due date the handler then stores; and one that names a due
\* date 24 hours or more in the past is answered 400 and changes nothing.
C15_DueDateNotDayPast ==
  [][/\ \A tok \in tokens :
          tok.role \in {"professor", "admin"}
          => /\ \A title \in TitleInputs, desc \in DescInputs, due \in Dates :
                  CreateHook(1, tok, title, desc, due)
                    => /\ proc'[1].pc = "createInsert"
                            => proc'[1].val = due /\ ~DayOrMorePast(due, now)
                       /\ DayOrMorePast(due, now) => Refuses(400)
             /\ \A aid \in AssignmentIdInputs, b \in UpdateBodies :
                  UpdateLoad(1, tok, aid, b)
                    => /\ proc'[1].pc = "updSave"
                            => ~DayOrMorePast(ApplySet(assignments[aid], proc'[1].set,
                                                       proc'[1].title, proc'[1].val).dueDate,
                                              now)
                       /\ ("dueDate" \in b.fields /\ DayOrMorePast(b.dueDate, now))
                            => Refuses(400)
     /\ CreateInsert(1)
          => /\ Replies(1, "createAssignment", 201, None)
             /\ assignments'[Len(assignments')].dueDate = proc[1].val
     /\ UpdateSave(1)
          => /\ Replies(1, "updateAssignment", 200, None)
             /\ assignments'[proc[1].aid] =
                  ApplySet(assignments[proc[1].aid], proc[1].set, proc[1].title,
                           proc[1].val)]_vars

\* C15 witness: a creation has just been refused at a time when a due date
\* of the inputs is 24 hours in the past.
C15_Witness ==
  /\ Replied(1, "createAssignment", 400, "Validation failed")
  /\ \E due \in Dates : DayOrMorePast(due, now)
\* The user is stored with the role professor or admin.
StoredStaff(uid) ==
  uid \in 1..Len(users) /\ users[uid].role \in {"professor", "admin"}

C18_OverdueIsNowAfterDueDate ==
  [][/\ \A i \in 1..Len(assignments) :
          Stored(i) => (IsOverdue(assignments[i], now) <=> now > assignments[i].dueDate)
     /\ \A p \in Procs, tok \in tokens, aid \in 1..Len(assignments) :
          (tok.role = "student" /\ Stored(aid))
          => \A n \in ContentLenInputs, url \in FileUrlInputs :
               (n >= 1 /\ n <= 5000 /\ url # "nope" /\ SubmitLoad(p, tok, aid, n, url))
                 => (Replies(p, "submitAssignment", 400,
                             "Assignment submission deadline has passed")
                       <=> now > assignments[aid].dueDate)]_vars

\* C18 witness: a submission has just been refused as overdue for an
\* assignment whose due date has passed.
C18_Witness ==
  /\ \E p \in Procs :
       Replied(p, "submitAssignment", 400, "Assignment submission deadline has passed")
  /\ \E i \in 1..Len(assignments) : Stored(i) /\ now > assignments[i].dueDate
C20_ConnectIdempotent ==
  [][/\ \A p \in Procs :
          (db.readyState \in {Connected, Connecting} /\ ConnectToDatabase(p))
          => (db' = db /\ proc'[p].pc = "done")
     /\ db'.attempts # db.attempts
          => /\ db.readyState \in {Disconnected, Disconnecting}
             /\ db'.attempts = db.attempts + 1
             /\ \E p \in Procs : ConnectToDatabase(p)]_vars

\* C20 witness: while one call's attempt is still connecting, a second call
\* has returned, and the one attempt is the only one made.
C20_Witness ==
  /\ db.readyState = Connecting
  /\ db.attempts = 1
  /\ proc[1].pc = "connect"
  /\ Replied(2, "connectToDatabase", 0, None)

\* C21: an absent setting stops the feature that needs it: without the
\* Cloudinary settings nothing is forwarded to the provider and an upload is
\* answered 503 (or 401/403 before it); without JWT_SECRET no login issues a
\* token and no request gets past authenticate.
C21_AbsentSettingStopsFeature ==
  /\ ~IsCloudinaryConfigured(env)
       => /\ cloud = {}
          /\ \A p \in Procs :
               (proc[p].pc = "done"
                  /\ proc[p].resp.op \in {"uploadAssignmentSubmission", "uploadPostImage"})
               => proc[p].resp.status \in {401, 403, 503}
  /\ env.jwtSecret = None
       => \A p \in Procs :
            /\ ~Replied(p, "login", 200, None)
            /\ ~(proc[p].pc = "controller" /\ proc[p].role # None)
            /\ proc[p].pc \notin {"upExtract", "imgExtract"}

\* A file that is over the size limit of its endpoint or not of an allowed type.
BreaksFileLimit(form) ==
  form.kind = "file" /\ (form.size > MaxFileSize \/ form.mimeType \notin AllowedTypes)
BreaksImageLimit(form) ==
  form.kind = "file" /\ (form.size > MaxImageSize \/ form.mimeType \notin ImageTypes)

\* What reaches the provider is within the limits of its endpoint, and an
\* assignment file comes from a caller with a student's token for a stored
\* assignment that was not overdue when the controller tested it.
ForwardedAfterChecks ==
  \A f \in cloud' \ cloud :
    \E p \in Procs :
      /\ f.uid = proc[p].uid
      /\ f.endpoint = "assignment"
           => /\ proc[p].pc = "upExtract"
              /\ f.size <= MaxFileSize /\ f.mimeType \in AllowedTypes
              /\ proc[p].role = "student"
              /\ f.aid = proc[p].aid /\ Stored(f.aid)
              /\ proc[p].val <= now /\ ~(proc[p].val > assignments[f.aid].dueDate)
      /\ f.endpoint = "post-image"
           => /\ proc[p].pc = "imgExtract"
              /\ f.size <= MaxImageSize /\ f.mimeType \in ImageTypes

\* C22 as stated: what is forwarded has passed the limits, and every upload
\* request whose file breaks a limit is answered 400.
C22_BrokenLimitAlways400 ==
  [][/\ ForwardedAfterChecks
     /\ \A p \in Procs :
          (proc'[p].pc = "done" /\ proc[p].pc # "done")
          => /\ (proc'[p].resp.op = "uploadAssignmentSubmission"
                   /\ BreaksFileLimit(proc'[p].form)) => proc'[p].resp.status = 400
             /\ (proc'[p].resp.op = "uploadPostImage"
                   /\ BreaksImageLimit(proc'[p].form)) => proc'[p].resp.status = 400]_vars

\* C22: what is forwarded has passed the limits; an upload request whose
\* file breaks a limit forwards nothing, and it is answered 400 once the
\* controller has read the file, the refusals that come before the reading
\* (401, 403, 503, 400 for the id, 404, 400 for an overdue assignment)
\* taking precedence.
C22_ForwardedWithinLimits ==
  [][/\ ForwardedAfterChecks
     /\ \A p \in Procs :
          (proc'[p].pc = "done" /\ proc[p].pc # "done")
          => /\ (proc'[p].resp.op = "uploadAssignmentSubmission"
                   /\ BreaksFileLimit(proc'[p].form))
                  => /\ cloud' = cloud
                     /\ proc'[p].resp.status \in {400, 401, 403, 404, 503}
                     /\ proc[p].pc = "upExtract" => proc'[p].resp.status = 400
             /\ (proc'[p].resp.op = "uploadPostImage"
                   /\ BreaksImageLimit(proc'[p].form))
                  => /\ cloud' = cloud
                     /\ proc'[p].resp.status \in {400, 401, 503}
                     /\ proc[p].pc = "imgExtract" => proc'[p].resp.status = 400]_vars

\* C22 witness: a student's document has been forwarded, and an upload whose
\* file is over the size limit has just been answered 400.
C22_Witness ==
  /\ \E f \in cloud : f.endpoint = "assignment"
  /\ \E p \in Procs :
       /\ proc[p].pc = "done"
       /\ proc[p].resp.op = "uploadAssignmentSubmission"
       /\ proc[p].resp.status = 400
       /\ proc[p].form.kind = "file" /\ proc[p].form.size > MaxFileSize

\* C28: an upload request that has got as far as the reading of its body
\* and carries no file in the expected field is answered 400 with the
\* "Please select ..." message of its endpoint.
C28_MissingFileAnswered400 ==
  [][\A p \in Procs :
       (proc[p].form.kind = "none" /\ proc'[p].pc = "done")
       => /\ proc[p].pc = "upExtract"
               => /\ proc'[p].resp.status = 400
                  /\ proc'[p].resp.err = "Please select a file to upload"
          /\ proc[p].pc = "imgExtract"
               => /\ proc'[p].resp.status = 400
                  /\ proc'[p].resp.err = "Please select an image to upload"]_vars

\* C24: no lock-out: once a user has registered, some stored user has the
\* role admin.
C24_AlwaysAnAdmin ==
  Len(users) >= 1 => \E i \in 1..Len(users) : users[i].role = "admin"

\* C25: in every interleaving of deleteAssignment and submitAssignment, no
\* step removes an assignment that holds a submission.
C25_NoDeleteWithSubmissions ==
  [][\A aid \in 1..Len(assignments) :
       (Stored(aid) /\ Len(assignments[aid].submissions) > 0)
       => assignments'[aid].exists]_vars

\* C26: an update writes only the fields its body names: createdBy and the
\* submissions never change, title and due date change only when named; and
\* an update by the creator that names only a valid title goes on to be
\* saved, also when the stored due date is more than 24 hours past.
C26_UpdateWritesNamedFieldsOnly ==
  [][/\ \A aid \in 1..Len(assignments) :
          Stored(aid)
          => /\ assignments'[aid].createdBy = assignments[aid].createdBy
             /\ assignments'[aid].submissions = assignments[aid].submissions
             /\ \A p \in Procs :
                  (proc[p].pc = "updSave" /\ proc[p].aid = aid /\ proc'[p].pc = "done")
                  => /\ "title" \notin proc[p].set
                          => assignments'[aid].title = assignments[aid].title
                     /\ "dueDate" \notin proc[p].set
                          => assignments'[aid].dueDate = assignments[aid].dueDate
     /\ \A p \in Procs, tok \in tokens, aid \in 1..Len(assignments), b \in UpdateBodies :
          ( /\ Stored(aid)
            /\ IsStaff(tok) /\ ~IsForeignProfessor(tok, assignments[aid])
            /\ b.fields = {"title"} /\ b.title \in Titles
            /\ now - assignments[aid].dueDate > DayTicks
            /\ UpdateLoad(p, tok, aid, b) )
          => proc'[p].pc = "updSave"]_vars

\* The assignments a statistics request of the role and user counts.
Counted(role, uid) ==
  {i \in 1..Len(assignments) :
     Stored(i) /\ (role = "professor" => assignments[i].createdBy = uid)}

\* C27: in every getAssignmentStats result upcoming + overdue = total, the
\* total is the number of counted assignments (the caller's own for a
\* professor, all for an admin), the submissions are those of the counted
\* assignments, and with none counted every value is 0.
C27_StatsAddUp ==
  \A p \in Procs :
    Replied(p, "getAssignmentStats", 200, None)
    => LET stats == proc[p].resp.list
           ids == Counted(proc[p].resp.caller, proc[p].uid)
       IN /\ stats[2] + stats[3] = stats[1]
          /\ stats[1] = Cardinality(ids)
          /\ stats[4] = SumSubmissions(ids)
          /\ ids = {} => (stats[1] = 0 /\ stats[2] = 0 /\ stats[3] = 0 /\ stats[4] = 0
                           /\ stats[5][1] = 0)

\* C29: a 401 to the refresh of the current user logs the browser out:
\* the stored token is removed, token and user of the state are null; and a
\* logout leaves the same state, so that the next request carries no token.
C29_UnauthorizedLogsOut ==
  [][/\ (client.auth.pc = "refreshing" /\ client'.auth.pc = "idle"
           /\ client'.auth.status = 401)
          => /\ client'.auth.stored = NoJwt
             /\ client'.auth.token = NoJwt
             /\ client'.auth.user = 0
     /\ Logout
          => /\ client'.auth.stored = NoJwt
             /\ client'.auth.token = NoJwt
             /\ client'.auth.user = 0]_vars

\* C30: a failed attempt is followed by another only for a query, never
\* after an error with status 401, 403 or 404, and at most three times, so
\* that a query makes at most four attempts; a mutation makes one.
C30_RetriesBounded ==
  [][\A k \in QueryKeys :
       (client.query[k].state = "fetching"
          /\ client'.query[k].attempts = client.query[k].attempts + 1)
       => /\ ~IsMutation(k)
          /\ client'.query[k].error \notin {401, 403, 404}
          /\ client'.query[k].attempts - 1 <= 3]_vars

\* C30 witness: the user list query has given up after its third retry
\* failed like the attempts before it, and the mutation after its only attempt.
C30_Witness ==
  /\ client.query["users"].state = "error"
  /\ client.query["users"].attempts = 4
  /\ client.query["users"].error = 500
  /\ client.query["updateRole"].state = "error"
  /\ client.query["updateRole"].attempts = 1

\* Every role update has settled and no fetch of the list is in flight.
AllSettled(c) ==
  /\ \A m \in Procs : c.list.muts[m].state # "sent"
  /\ c.list.fetch.state = "none"

====
